---- MODULE Spec2Model ----
(***************************************************************************)
(* A model of the polygate execution gateway: the idempotency layer of the *)
(* request pipeline with its three stores, the order path of the gateway   *)
(* service (panic gate, risk engine, usage counters) and the shadow order  *)
(* book fed by the market stream.                                          *)
(***************************************************************************)
EXTENDS Integers, Sequences, FiniteSets, TLC

\* ------------------------------------------------------------------ bounds
NumReqs == 2
\* prices are counted in ticks; PriceOne ticks make the price 1.0
PriceOne == 4
MaxSize == 2
NumCalls == 2
\* levels per side of one stream message
MaxMsgLevels == 1
\* levels per side handed to Snapshot
MaxLevels == 2

\* consecutive dial failures counted (further ones leave the count there)
MaxFails == 6

\* connections the feed dials successfully
MaxDials == 2

\* largest exchange nonce of a maker
MaxNonce == 2

\* /v1 requests in flight together
NumHttp == 2

\* largest burst of a tenant's rate limit
MaxBurst == 1

\* calls of AuditService.Log
NumLogs == 4

\* slots of the audit queue (1000 in NewAuditService)
LogChanSize == 2

\* records of the audit ring (1000 in NewAuditService)
AuditMaxSize == 2

\* orders that one signer signs
MaxSigned == 2

\* fill events that the user stream receives
NumFills == 3
NumRegReqs == 2

\* --------------------------------------------------------------- constants
StatusOK == 200
StatusBadRequest == 400
StatusUnauthorized == 401
StatusForbidden == 403
StatusNotFound == 404
StatusTooManyRequests == 429
StatusConflict == 409
StatusInternalServerError == 500
StatusBadGateway == 502
StatusServiceUnavailable == 503
\* seconds after which the risk engine calls a book stale
StaleAfter == 10

\* the reconnect delays of the market feed, in seconds
ReconnBaseDelay == 1
ReconnMaxDelay == 30

VARIABLES
    backend,      \* which IdempotencyStore implementation the middleware holds
    records,      \* the store: full key -> record, or Absent
    rq,           \* per HTTP request: position in the middleware chain and locals
    riskIn,       \* the arguments of one RiskEngine.CheckOrder call
    riskOut,      \* what that call returned
    panicMode,    \* GatewayService.panicMode
    panicReq,     \* the DELETE /v1/panic request: position and CancelAll error
    usageBackend, \* which UsageRepo implementation the risk engine holds
    tenantRisk,   \* the RiskConfig of the tenant placing orders
    dailyOrders,  \* the tenant's usage record of the day: order count
    dailyVolume,  \* ... and volume
    calls,        \* per GatewayService.PlaceOrder call: position and locals
    books,        \* MarketService.books: token -> Orderbook, or NoOrderbook
    feed,         \* the read loop: the message in hand and what is left of it
    api,          \* a direct user of one Orderbook: slices passed and received
    reader,       \* a reader of the shadow book: what it has read so far
    ctxDone,      \* MarketService.ctx is cancelled
    conn,         \* MarketService.conn: NoConn (nil) or the connection it points to
    open,         \* the connections dialed and not closed
    dials,        \* how many connections were dialed
    isConnected,  \* MarketService.isConnected
    mu,           \* who holds MarketService.mu for good: nobody, or a Subscribe call
    subs,         \* MarketService.subs
    run,          \* runLoop: position, the local delay, consecutive dial failures
    pingers,      \* the pinger goroutines alive, named by the connection they came with
    stop,         \* the Stop call: position
    exchangeNonces,  \* NonceManager.exchangeNonces: maker -> nonce, or NoNonce
    contractNonces,  \* nonces(maker) as the exchange contract stores it
    nonceOut,        \* the last NonceManager call: arguments and result
    gwConfig,        \* GatewayService: the gateway's signing key, the RPC URL
    gw,              \* one PlaceOrder or BuildTypedOrder call: position, locals
    er,              \* one request through ReadOnlyMiddleware, a handler, ErrorHandler
    pcfg,            \* config: auth.require_api_key, the tenants' rate limit; the
                     \* TenantManager's repo and defaultTenant
    tm,              \* TenantManager: tenants by gateway key, limiters by tenant id
    hreq,            \* per /v1 request: position in the middleware chain, locals
    acfg,            \* config: auth.admin_key, auth.admin_secret_key; whether the
                     \* TenantService has a repository
    store,           \* the tenants' credentials: in the TenantManager, in the repository
    adm,             \* one PUT /v1/tenants/:id/creds request: position, locals
    red,             \* one body on its way through redactAuditBody, twice
    abuf,            \* the in-memory ring of the audit service (auditBuffer)
    asvc,            \* the audit service: queue, file, repository, consumer
    alog,            \* each call of AuditService.Log: position, entry
    alist,           \* the last call of auditBuffer.List and what it returned
    sg,              \* the fast signer: its fields, the order in hand, the signature
    us,              \* the user stream: its goroutine, s.fills, what was received and read
    reg,             \* the TenantManager's three maps for one tenant id
    tobj,            \* the credentials held by each model.Tenant object
    trepo,           \* the tenant repository: whether there is one, the stored credentials
    upd,             \* one TenantService.UpdateCreds call: position, its tenant object
    treq             \* per request of the tenant: position, tenant object, outcome

idemVars == <<backend, records, rq>>

riskVars == <<riskIn, riskOut>>

orderVars == <<panicMode, panicReq, usageBackend, tenantRisk, dailyOrders,
               dailyVolume, calls>>

feedVars == <<books, feed, api, reader>>

connVars == <<ctxDone, conn, open, dials, isConnected, mu, subs, run, pingers, stop>>

nonceVars == <<exchangeNonces, contractNonces, nonceOut>>

gwVars == <<gwConfig, gw>>

errVars == <<er>>

pipeVars == <<pcfg, tm, hreq>>

adminVars == <<acfg, store, adm>>

redactVars == <<red>>

auditVars == <<abuf, asvc, alog, alist>>

signVars == <<sg>>

userVars == <<us>>

regVars == <<reg, tobj, trepo, upd, treq>>

lateVars == <<errVars, pipeVars, adminVars, redactVars, auditVars, signVars, userVars, regVars>>

vars == <<idemVars, riskVars, orderVars, feedVars, connVars, nonceVars, gwVars,
          lateVars>>

\* ---------------------------------------------------------------- domains
Reqs == 1..NumReqs
Tenants == {"t1", "t2"}
\* values of the X-Idempotency-Key header; "" is the absent header
HeaderValues == {"", "k1"}

\* fullKey := tenant.ID + ":" + idemKey
FullKey(tenant, idemKey) == <<tenant, ":", idemKey>>

FullKeys == {FullKey(t, k) : t \in Tenants, k \in HeaderValues \ {""}}

Absent == [Processing |-> FALSE, Status |-> -1, Body |-> "absent"]

\* the record GetOrLock inserts
LockedRecord == [Processing |-> TRUE, Status |-> 0, Body |-> ""]

CompletedRecord(status, body) == [Processing |-> FALSE, Status |-> status, Body |-> body]

\* the rest of the gateway, untouched by the idempotency pipeline
IdemFrame ==
    UNCHANGED <<riskVars, orderVars, feedVars, connVars, nonceVars, gwVars, lateVars>>

\* ------------------------------------------------------------ error mapping
ErrorTypes == {"RISK_REJECT", "AUTH_FAILED", "NONCE_ERROR", "SYSTEM_PANIC",
               "INVALID_REQUEST", "INTERNAL_ERROR", "NOT_FOUND", "UPSTREAM_ERROR"}

mapTypeToStatus(t) ==
    CASE t \in {"RISK_REJECT", "INVALID_REQUEST"} -> StatusBadRequest
      [] t = "AUTH_FAILED" -> StatusUnauthorized
      [] t = "NONCE_ERROR" -> StatusConflict
      [] t = "SYSTEM_PANIC" -> StatusServiceUnavailable
      [] t = "NOT_FOUND" -> StatusNotFound
      [] t = "UPSTREAM_ERROR" -> StatusBadGateway
      [] OTHER -> StatusInternalServerError

\* the JSON envelope {code, message, suggestion} written for an AppError
Envelope(t) == <<"envelope", t>>

\* A service error text is modelled by the set of marker substrings it holds.
mapServiceError(msg) ==
    IF "risk reject" \in msg THEN "RISK_REJECT"
    ELSE IF "signature" \in msg \/ "unauthorized" \in msg THEN "AUTH_FAILED"
    ELSE IF "nonce" \in msg THEN "NONCE_ERROR"
    ELSE IF "panic" \in msg THEN "SYSTEM_PANIC"
    ELSE "INTERNAL_ERROR"

\* -------------------------------------------------------------- risk engine
\* model.RiskConfig of the tenant. Values are in ticks (price times size);
\* MaxSlippage s stands for the fraction s / PriceOne; 0 disables a limit.
RiskConfigs ==
    [MaxOrderValue : {0, 3}, MaxSlippage : {0, 1}, RestrictedMkts : {{}, {"T2"}},
     MaxDailyValue : {0, 4}, MaxDailyOrders : {0, 2}]

Tokens == {"T1", "T2"}
Sides == {"BUY", "SELL"}

\* model.OrderRequest as the risk engine reads it
OrderRequests ==
    [TokenID : Tokens, Price : 0..PriceOne, Size : 0..MaxSize, Side : Sides]

Level(p, sz) == [Price |-> p, Size |-> sz]

\* What MarketService.GetBook hands to the risk engine: nil, or a book with
\* the seconds since its LastUpdated and its two ladders.
NoBook == [present |-> FALSE, age |-> 0, Bids |-> <<>>, Asks |-> <<>>]

BookViews ==
    {NoBook} \cup
    [present : {TRUE}, age : {0, StaleAfter, StaleAfter + 1},
     Bids : {<<>>, <<Level(2, 5)>>}, Asks : {<<>>, <<Level(2, 5)>>}]

\* What UsageRepo.GetDailyUsage returned: (orders, volume, err)
UsageResults == [err : BOOLEAN, orders : {0, 2}, vol : {0, 3}]

Reject(reason, usageRead) == [reason |-> reason, usageRead |-> usageRead]

\* Step 3 of CheckOrder, the price deviation block.
SlippageCheck(config, req, book) ==
    IF config.MaxSlippage > 0 /\ book.present THEN
        IF book.age > StaleAfter THEN "stale_data"
        ELSE IF req.Side = "BUY" THEN
            IF Len(book.Asks) > 0
               /\ req.Price * PriceOne > book.Asks[1].Price * (PriceOne + config.MaxSlippage)
            THEN "slippage" ELSE "ok"
        ELSE
            IF Len(book.Bids) > 0
               /\ req.Price * PriceOne < book.Bids[1].Price * (PriceOne - config.MaxSlippage)
            THEN "slippage" ELSE "ok"
    ELSE "ok"

\* Step 5 of CheckOrder, the daily limits, given what the usage store returned.
DailyCheck(config, req, usage) ==
    IF usage.err THEN "usage_error"
    ELSE IF config.MaxDailyValue > 0
            /\ usage.vol + req.Price * req.Size > config.MaxDailyValue
    THEN "daily_volume_limit"
    ELSE IF config.MaxDailyOrders > 0 /\ usage.orders + 1 > config.MaxDailyOrders
    THEN "daily_order_limit"
    ELSE "ok"

DailyLimitConfigured(config) == config.MaxDailyValue > 0 \/ config.MaxDailyOrders > 0

\* The same checks with the daily limits consulted before the market list.
CheckOrder_DailyBeforeRestricted(config, req, book, usage) ==
    IF req.Price <= 0 \/ req.Price >= PriceOne THEN Reject("price_bounds", FALSE)
    ELSE IF req.Size <= 0 THEN Reject("invalid_size", FALSE)
    ELSE IF config.MaxOrderValue > 0 /\ req.Price * req.Size > config.MaxOrderValue
    THEN Reject("max_value", FALSE)
    ELSE IF SlippageCheck(config, req, book) # "ok"
    THEN Reject(SlippageCheck(config, req, book), FALSE)
    ELSE IF DailyLimitConfigured(config) /\ DailyCheck(config, req, usage) # "ok"
    THEN Reject(DailyCheck(config, req, usage), TRUE)
    ELSE IF req.TokenID \in config.RestrictedMkts
    THEN Reject("restricted_market", DailyLimitConfigured(config))
    ELSE Reject("ok", DailyLimitConfigured(config))

\* RiskEngine.CheckOrder: the reason of the first failing check ("ok" for a
\* nil error, "usage_error" for "risk check failed") and whether the usage
\* store was read.
CheckOrder(config, req, book, usage) ==
    IF req.Price <= 0 \/ req.Price >= PriceOne THEN Reject("price_bounds", FALSE)
    ELSE IF req.Size <= 0 THEN Reject("invalid_size", FALSE)
    ELSE IF config.MaxOrderValue > 0 /\ req.Price * req.Size > config.MaxOrderValue
    THEN Reject("max_value", FALSE)
    ELSE IF SlippageCheck(config, req, book) # "ok"
    THEN Reject(SlippageCheck(config, req, book), FALSE)
    ELSE IF req.TokenID \in config.RestrictedMkts
    THEN Reject("restricted_market", FALSE)
    ELSE IF DailyLimitConfigured(config)
    THEN Reject(DailyCheck(config, req, usage), TRUE)
    ELSE Reject("ok", FALSE)

NoRiskIn ==
    [config |-> [MaxOrderValue |-> 0, MaxSlippage |-> 0, RestrictedMkts |-> {},
                 MaxDailyValue |-> 0, MaxDailyOrders |-> 0],
     req |-> [TokenID |-> "T1", Price |-> 0, Size |-> 0, Side |-> "BUY"],
     book |-> NoBook,
     usage |-> [err |-> FALSE, orders |-> 0, vol |-> 0]]

Pending == Reject("pending", FALSE)

RiskIdle == riskIn = NoRiskIn /\ riskOut = Pending

\* ------------------------------------------------------------- order path
Calls == 1..NumCalls

\* RiskUsageStore, RedisUsageRepo, PostgresRiskRepo and the go-redis client
UsageBackends == {"mem", "redis", "pg", "goredis"}

Unlimited == NoRiskIn.config

\* the tenants placing orders: one without limits, one with daily limits
TenantRisks ==
    {Unlimited, [Unlimited EXCEPT !.MaxDailyValue = 2, !.MaxDailyOrders = 2]}

\* the orders they send for risk checking
PlacedOrders == [TokenID : {"T1"}, Price : {0, 1}, Size : {1, MaxSize}, Side : {"BUY"}]

IdleCall ==
    [pc |-> "idle", req |-> NoRiskIn.req, afterPanic |-> FALSE,
     checked |-> FALSE, usageFailed |-> FALSE, ordersRead |-> 0,
     signed |-> FALSE, submitted |-> FALSE, accepted |-> FALSE,
     hookFailed |-> FALSE, err |-> {}, code |-> "", status |-> 0]

OrderIdle ==
    /\ panicMode = FALSE
    /\ panicReq = [pc |-> "idle", err |-> FALSE]
    /\ usageBackend = "mem"
    /\ tenantRisk = Unlimited
    /\ dailyOrders = 0
    /\ dailyVolume = 0
    /\ calls = [c \in Calls |-> IdleCall]

\* ------------------------------------------------------------ shadow book
\* Decimal values are counted in quarters. decimal.NewFromString of the
\* strings the stream carries; ParseError stands for its error.
ParseError == -1

RawPrices == {"0.25", "0.5", "0.50"}

RawSizes == {"0", "5", "7"}

NewFromString(str) ==
    CASE str \in {"0", "0.0"} -> 0
      [] str = "0.25" -> 1
      [] str \in {"0.5", "0.50"} -> 2
      [] str = "5" -> 20
      [] str = "7" -> 28
      [] OTHER -> ParseError

NoOrderbook == [exists |-> FALSE, Bids |-> <<>>, Asks |-> <<>>, fresh |-> FALSE]

\* NewOrderbook: empty ladders and the zero LastUpdated. fresh says that
\* LastUpdated is no more than StaleAfter seconds ago.
NewOrderbook == [exists |-> TRUE, Bids |-> <<>>, Asks |-> <<>>, fresh |-> FALSE]

\* the index of the first level with the price, 0 for none
IndexOfPrice(levels, price) ==
    IF \E i \in 1..Len(levels) : levels[i].Price = price
    THEN CHOOSE i \in 1..Len(levels) :
            /\ levels[i].Price = price
            /\ \A j \in 1..(i - 1) : levels[j].Price # price
    ELSE 0

RemoveAt(levels, idx) ==
    [i \in 1..(Len(levels) - 1) |-> IF i < idx THEN levels[i] ELSE levels[i + 1]]

Before(a, b, descending) == IF descending THEN a.Price > b.Price ELSE a.Price < b.Price

RECURSIVE SortLevels(_, _)
\* sort.Slice by price, descending for bids and ascending for asks
SortLevels(levels, descending) ==
    IF Len(levels) <= 1 THEN levels
    ELSE LET rest == SortLevels(Tail(levels), descending)
             x == Head(levels)
             k == Cardinality({i \in 1..Len(rest) : Before(rest[i], x, descending)})
         IN  SubSeq(rest, 1, k) \o <<x>> \o SubSeq(rest, k + 1, Len(rest))

updateLevel(levels, price, size, descending) ==
    LET idx == IndexOfPrice(levels, price)
    IN  IF size = 0
        THEN IF idx # 0 THEN RemoveAt(levels, idx) ELSE levels
        ELSE IF idx # 0
        THEN [levels EXCEPT ![idx].Size = size]
        ELSE SortLevels(Append(levels, Level(price, size)), descending)

\* Orderbook.Update: a parse error returns before anything is written
Update(ob, side, priceStr, sizeStr) ==
    IF NewFromString(priceStr) = ParseError \/ NewFromString(sizeStr) = ParseError
    THEN ob
    ELSE IF side = "BUY"
    THEN [ob EXCEPT !.Bids = updateLevel(@, NewFromString(priceStr),
                                         NewFromString(sizeStr), TRUE),
                    !.fresh = TRUE]
    ELSE [ob EXCEPT !.Asks = updateLevel(@, NewFromString(priceStr),
                                         NewFromString(sizeStr), FALSE),
                    !.fresh = TRUE]

\* the bid levels of the stream, one of them with a price that does not parse
RawBidLevels == [Price : RawPrices, Size : RawSizes] \cup {[Price |-> "x", Size |-> "5"]}

\* ... and its ask levels, all at one price
RawAskLevels == [Price : {"0.50"}, Size : RawSizes]

LaddersOf(levels) == UNION {[1..n -> levels] : n \in 0..MaxMsgLevels}

\* WSMessage with event_type "book", for the subscribed token and for one
\* that nobody subscribed to; Hash "" is the absent hash
WSMessages ==
    [Market : {"T1"}, Hash : {"", "h1"},
     Bids : LaddersOf(RawBidLevels), Asks : LaddersOf(RawAskLevels)]
    \cup {[Market |-> "T2", Hash |-> "h1", Bids |-> <<[Price |-> "0.5", Size |-> "5"]>>,
           Asks |-> <<>>]}

NoMessage == [Market |-> "", Hash |-> "", Bids |-> <<>>, Asks |-> <<>>]

IdleFeed == [pc |-> "idle", msg |-> NoMessage, todo |-> <<>>, pre |-> NoOrderbook]

\* What a caller of Snapshot and GetCopy holds: args are the ladders as they
\* were passed to the last Snapshot, held the caller's slices of that call
\* as they are now, shared whether the book still uses their arrays, got the
\* slices GetCopy returned, last the operation made last.
IdleApi ==
    [args |-> [Bids |-> <<>>, Asks |-> <<>>], held |-> [Bids |-> <<>>, Asks |-> <<>>],
     shared |-> FALSE, snapped |-> FALSE, got |-> [Bids |-> <<>>, Asks |-> <<>>],
     last |-> "none"]

\* A reader of the book of T1: the book as it was at the reader's first
\* read (bids1, asks1, fresh1), the ladders and the timestamp it ended up
\* with, whether its GetCopy fell between two Update calls of one message,
\* and whether what it ended up with is one state of the book.
IdleReader ==
    [pc |-> "idle", kind |-> "none", bids1 |-> <<>>, asks1 |-> <<>>, fresh1 |-> FALSE,
     Bids |-> <<>>, Asks |-> <<>>, fresh |-> FALSE, partial |-> FALSE,
     oneState |-> TRUE]

\* ------------------------------------------------ the feed's connection
\* s.conn == nil
NoConn == 0

\* runLoop before its first iteration: delay := ReconnBaseDelay
\* slept: runLoop has slept since its last dial (or has not dialled yet)
IdleRun == [pc |-> "top", delay |-> ReconnBaseDelay, fails |-> 0, slept |-> TRUE]

\* NewMarketService: no connection, nothing subscribed, context not cancelled
ConnIdle ==
    /\ ctxDone = FALSE
    /\ conn = NoConn
    /\ open = {}
    /\ dials = 0
    /\ isConnected = FALSE
    /\ mu = "free"
    /\ subs = {}
    /\ run = IdleRun
    /\ pingers = {}
    /\ stop = "idle"

\* ------------------------------------------------------- nonce manager
\* the addresses orders are made for: the gateway signer's and a client's
Makers == {"0xgw", "0xab"}

\* the proxy wallet and the Safe wallet derived from the gateway signer's
\* address
DerivedWallets == {"0xgwproxy", "0xgwsafe"}

\* exchangeNonces holds no entry for the address
NoNonce == -1

NoNonceCall == [op |-> "none", addr |-> "none", ret |-> NoNonce]

\* NewNonceManager: an empty cache; every maker's nonce in the contract is 0
NonceIdle ==
    /\ exchangeNonces = [a \in Makers \cup DerivedWallets |-> NoNonce]
    /\ contractNonces = [a \in Makers \cup DerivedWallets |-> 0]
    /\ nonceOut = NoNonceCall

\* ------------------------------------------------------- gateway calls
\* Strings as the gateway compares them: strings.TrimSpace and
\* strings.ToLower on the values that occur.
TrimSpace(str) == IF str = " " THEN "" ELSE str

ToLower(str) ==
    CASE str \in {"0xAb", "0xAB"} -> "0xab"
      [] str = "0xCD" -> "0xcd"
      [] OTHER -> str

EqualFold(a, b) == ToLower(a) = ToLower(b)

\* common.Address.Hex(): the mixed-case form of an address
Hex(addr) == IF addr = "0xab" THEN "0xAb" ELSE addr

\* auth.SignatureEOA, auth.SignatureProxy, auth.SignatureGnosisSafe, and a
\* nil *int
SignatureEOA == 0
SignatureProxy == 1
SignatureGnosisSafe == 2
NilType == -1

\* model.Tenant as PlaceOrder reads it (the RiskConfig limits are tenantRisk)
GwTenants ==
    [PrivateKey : {"", "k1"}, AllowedSigners : {{}, {"0xab"}},
     AllowUnverifiedSignatures : BOOLEAN, HasL2 : {TRUE}]
    \cup {[PrivateKey |-> "", AllowedSigners |-> {},
           AllowUnverifiedSignatures |-> FALSE, HasL2 |-> FALSE]}

\* req.Signable: nil, a signable without order, or a signable whose order has
\* signer and maker 0xab and the given signatureType
Signables == {"nil", "noorder", "order", "safeorder"}

HasOrder(signable) == signable \in {"order", "safeorder"}

OrderSigner(signable) == "0xab"

OrderMaker(signable) == "0xab"

OrderSignatureType(signable) ==
    IF signable = "safeorder" THEN SignatureGnosisSafe ELSE NilType

\* model.OrderRequest; Price is in quarters as for the risk engine
GwRequests ==
    [Size : {1, MaxSize}, Signature : {"", " ", "0xsig"}, Signable : Signables,
     Signer : {"", "0xAB", "0xCD"}, SignatureType : {NilType, SignatureGnosisSafe}]

\* the service errors and the marker substrings ("risk reject", "signature",
\* "unauthorized", "nonce", "panic") their texts hold
MarkersOf(text) ==
    CASE text = "system in panic mode: all trading suspended" -> {"panic"}
      [] text = "signable order required when providing signature" -> {"signature"}
      [] text = "risk reject" -> {"risk reject"}
      [] text = "signature required or gateway private key not configured"
            -> {"signature"}
      [] text = "signer address required when signature is provided" -> {"signature"}
      [] text = "signature type not supported for verification" -> {"signature"}
      [] text = "invalid safe signature" -> {"signature"}
      [] text = "invalid signature" -> {"signature"}
      [] OTHER -> {}

\* the texts of the exchange's rejections, each the set of the words
\* "nonce", "Nonce" and "signature" it holds
Rejections == {{}, {"nonce"}, {"Nonce"}, {"nonce", "signature"}}

NoTenant ==
    [PrivateKey |-> "", AllowedSigners |-> {}, AllowUnverifiedSignatures |-> FALSE,
     HasL2 |-> FALSE]

NoRequest ==
    [Size |-> 1, Signature |-> "", Signable |-> "nil", Signer |-> "",
     SignatureType |-> NilType]

IdleGw ==
    [pc |-> "idle", op |-> "none", tenant |-> NoTenant, req |-> NoRequest,
     panicSeen |-> FALSE, built |-> FALSE, path |-> "none", nonceFor |-> "none",
     signedWith |-> "",
     verifier |-> "none", ecdsa |-> "none", rejected |-> FALSE, rejection |-> {},
     resynced |-> "none", submitted |-> FALSE, orders0 |-> 0, volume0 |-> 0,
     ok |-> FALSE, err |-> "", code |-> "", status |-> 0]

\* no call yet; the gateway of InitGateway has a signing key and an RPC URL
GwIdle ==
    /\ gwConfig = [PrivateKey |-> "kgw", rpcURL |-> TRUE]
    /\ gw = IdleGw

\* ------------------------------------------------ one request and its error
\* the words mapServiceError looks for in the text of a service error
ErrorMarkers == {"risk reject", "signature", "unauthorized", "nonce", "panic"}

Methods == {"GET", "HEAD", "OPTIONS", "POST", "PUT", "DELETE"}

IdleEr ==
    [pc |-> "readonly", enabled |-> FALSE, method |-> "GET", path |-> "/v1/orders",
     mapped |-> FALSE, text |-> {}, cerr |-> "none", status |-> 0, code |-> ""]

ErrIdle == er = IdleEr

\* ---------------------------------------------------- the /v1 request chain
Https == 1..NumHttp

\* t1 is registered at start under the gateway key sk1; t2 is stored in the
\* tenant repository only, under sk2
TenantIDs == {"t1", "t2"}
GatewayKeys == {"sk1", "sk2"}

\* values of the X-Gateway-Key header; "" is the absent header
GatewayKeyHeaders == {"", "sk1", "sk2", "bad"}

NoTenantID == ""

\* TenantRepo.GetByApiKey
RepoTenantOf(key) == IF key = "sk2" THEN "t2" ELSE NoTenantID

\* a limiter's tokens; a limiter of limit rate.Inf; no limiter (nil)
InfTokens == -1
NoLimiter == -2

\* RegisterTenant: limit := QPS, rate.Inf when 0; burst := Burst, 1 when 0;
\* rate.NewLimiter(limit, burst) starts with a full bucket
NewLimiter(rate) ==
    IF rate.QPS = 0 THEN InfTokens
    ELSE IF rate.Burst = 0 THEN 1 ELSE rate.Burst

NoAudit == [StatusCode |-> -1, ResponseBody |-> "none"]

IdleHttp ==
    [pc |-> "idle", key |-> "", tenant |-> NoTenantID, reached |-> {},
     limited |-> "no", wstatus |-> 0, wbody |-> "", cerr |-> "none",
     audit |-> NoAudit]

IdlePcfg ==
    [RequireAPIKey |-> TRUE, Rate |-> [QPS |-> 0, Burst |-> 0], repo |-> FALSE,
     defaultTenant |-> NoTenantID]

\* NewTenantManager with one tenant registered
StartTm(rate) ==
    [tenants |-> [k \in GatewayKeys |-> IF k = "sk1" THEN "t1" ELSE NoTenantID],
     limiters |-> [t \in TenantIDs |-> IF t = "t1" THEN NewLimiter(rate) ELSE NoLimiter]]

PipeIdle ==
    /\ pcfg = IdlePcfg
    /\ tm = StartTm(IdlePcfg.Rate)
    /\ hreq = [r \in Https |-> IdleHttp]

\* ------------------------------------------------ the tenants' credentials
\* texts are sequences of characters
Text(str) ==
    CASE str = "" -> <<>>
      [] str = " " -> <<" ">>
      [] str = "sk1" -> <<"s", "k", "1">>
      [] str = " pass " -> <<" ", "p", "a", "s", "s", " ">>
      [] str = "TENANT_KEY" -> <<"T", "E", "N", "A", "N", "T", "_", "K", "E", "Y">>
      [] str = "TENANT_SECRET" ->
            <<"T", "E", "N", "A", "N", "T", "_", "S", "E", "C", "R", "E", "T">>
      [] str = "0xprivate" -> <<"0", "x", "p", "r", "i", "v", "a", "t", "e">>
      [] str = "oldsecret" -> <<"o", "l", "d", "s", "e", "c", "r", "e", "t">>

\* model.PolymarketCreds
NoCreds ==
    [Address |-> "", L2ApiKey |-> Text(""), L2ApiSecret |-> Text(""),
     L2ApiPassphrase |-> Text(""), PrivateKey |-> Text("")]

OldCreds ==
    [Address |-> "0xab", L2ApiKey |-> Text("sk1"), L2ApiSecret |-> Text("oldsecret"),
     L2ApiPassphrase |-> Text(""), PrivateKey |-> Text("")]

\* the credentials a request may carry
CredsPayloads ==
    {[Address |-> "", L2ApiKey |-> Text("TENANT_KEY"),
      L2ApiSecret |-> Text("TENANT_SECRET"), L2ApiPassphrase |-> Text(" pass "),
      PrivateKey |-> Text("")],
     [Address |-> "0xab", L2ApiKey |-> Text("sk1"), L2ApiSecret |-> Text(" "),
      L2ApiPassphrase |-> Text(""), PrivateKey |-> Text("0xprivate")]}

NoResponse == [status |-> 0, creds |-> NoCreds]

IdleAdm ==
    [pc |-> "idle", hdrKey |-> "", hdrSecret |-> "", id |-> "t1", bindOk |-> TRUE,
     creds |-> NoCreds, tenant |-> NoTenantID, key |-> "", resp |-> NoResponse]

StartStore ==
    [mem |-> [t \in TenantIDs |-> IF t = "t1" THEN OldCreds ELSE NoCreds],
     repo |-> [t \in TenantIDs |-> OldCreds]]

AdminIdle ==
    /\ acfg = [AdminKey |-> "", AdminSecretKey |-> "", repo |-> FALSE]
    /\ store = StartStore
    /\ adm = IdleAdm

\* ------------------------------------------------------- bodies of the log
\* A JSON text: a string, a number as it is written, an array, or an object
\* with its members in the order written (sp: with blanks between the tokens);
\* and a text that is not JSON.
Str(v) == [t |-> "str", v |-> v, m |-> <<>>, sp |-> FALSE]
Num(lit) == [t |-> "num", v |-> lit, m |-> <<>>, sp |-> FALSE]
Arr(items) == [t |-> "arr", v |-> "", m |-> items, sp |-> FALSE]
Obj(members, sp) == [t |-> "obj", v |-> "", m |-> members, sp |-> sp]
Raw(v) == [t |-> "raw", v |-> v, m |-> <<>>, sp |-> FALSE]

IdleRed == [pc |-> "idle", path |-> <<"/health", "">>, body |-> Raw(""),
            out |-> Raw(""), again |-> Raw("")]

RedactIdle == red = IdleRed

\* ------------------------------------------------------------ audit sink
Logs == 1..NumLogs

\* the tenant of the request that a record is about ("" for a request that
\* was not bound to a tenant)
TenantOfLog(r) == CASE r % 3 = 1 -> "t1" [] r % 3 = 2 -> "t2" [] OTHER -> NoTenantID

EntryOf(r) == [ID |-> r, TenantID |-> TenantOfLog(r)]

\* newAuditBuffer; added is the history of the calls of Add
newAuditBuffer == [records |-> <<>>, nextIndex |-> 0, added |-> <<>>]

\* NewAuditService, the consumer waiting for the first record; enqueued is
\* the history of the records that entered the queue
NewAuditService(hasRepo) ==
    [logChan |-> <<>>, closed |-> FALSE, fileOpen |-> TRUE, file |-> <<>>,
     hasRepo |-> hasRepo, repo |-> <<>>, enqueued |-> <<>>,
     pc |-> "recv", entry |-> 0]

\* at: how many records the ring had been given when List was called
NoList == [tenantID |-> NoTenantID, limit |-> 0, results |-> <<>>, called |-> FALSE,
           at |-> 0]

AuditIdle ==
    /\ abuf = newAuditBuffer
    /\ asvc = NewAuditService(FALSE)
    /\ alog = [r \in Logs |-> "idle"]
    /\ alist = NoList

\* ------------------------------------------------------------- the signer
PolygonChainID == 137

\* private keys, and the addresses that crypto.PubkeyToAddress gives them
PrivateKeys == {"k1", "k2"}

PubkeyToAddress(key) == IF key = "k1" THEN "0xA1" ELSE "0xA2"

ZeroAddress == "0x00"

NoSignature == [key |-> "", hash |-> <<>>, v |-> 0]

NoOrder == [Salt |-> 0, Maker |-> ZeroAddress, Signer |-> ZeroAddress,
            Taker |-> ZeroAddress, TokenID |-> 0, MakerAmount |-> 0, TakerAmount |-> 0,
            Expiration |-> 0, Nonce |-> 0, FeeRateBps |-> 0, Side |-> 0,
            SignatureType |-> 0]

IdleSg == [pc |-> "new", key |-> "", address |-> ZeroAddress, chainID |-> 0,
           domainSeparator |-> <<>>, order |-> NoOrder, given |-> NoOrder,
           hashed |-> <<>>, finalHash |-> <<>>, signature |-> NoSignature,
           hex |-> <<>>, own |-> "", other |-> "", signed |-> 0]

SignIdle == sg = IdleSg

\* --------------------------------------------------------- the user stream
FillIDs == 1..NumFills

\* NewUserStream; received is the history of the fill events that arrived,
\* got what the last GetFills returned, why the reason of the return of
\* connectAndRead
NewUserStream == [pc |-> "start", fills |-> <<>>, received |-> <<>>, got |-> <<>>,
                  asked |-> FALSE, why |-> "", conns |-> 0]

UserIdle == us = NewUserStream

\* the model.Tenant objects of one tenant id: the one the manager holds at
\* start, the one UpdateCreds gets from the repository, the one the fallback
\* of the key lookup gets from the repository
TenantObjects == {"held", "loaded", "fallback"}

RegReqs == 1 .. NumRegReqs

NoObject == "none"

NoClient == "none"

NewRegistry == [tenants |-> "held", limiters |-> TRUE, clients |-> NoClient]

IdleUpd == [pc |-> "idle", tenant |-> NoObject]

IdleRegReq == [pc |-> "auth", tenant |-> NoObject, status |-> 0, nolimiter |-> FALSE,
               client |-> NoClient]

RegIdle ==
    /\ reg = NewRegistry
    /\ tobj = [o \in TenantObjects |-> "old"]
    /\ trepo = [on |-> FALSE, creds |-> "old"]
    /\ upd = IdleUpd
    /\ treq = [r \in RegReqs |-> IdleRegReq]

\* every part of the gateway that the later sections model, at rest
LateIdle == ErrIdle /\ PipeIdle /\ AdminIdle /\ RedactIdle /\ AuditIdle /\ SignIdle /\ UserIdle /\ RegIdle

FeedIdle ==
    /\ books = [t \in Tokens |-> NoOrderbook]
    /\ feed = IdleFeed
    /\ api = IdleApi
    /\ reader = IdleReader
    /\ ConnIdle
    /\ NonceIdle
    /\ GwIdle
    /\ LateIdle

\* ------------------------------------------------- the HTTP request record
\* What the handler behind the idempotency middleware does with the request:
\* it writes a response itself (c.JSON), or records an error (c.Error) that
\* the outermost ErrorHandler turns into a response later, or it panics.
HandlerOutcomes ==
    {[kind |-> "write", status |-> StatusOK, body |-> "order_response"],
     [kind |-> "write", status |-> StatusInternalServerError, body |-> "error_json"],
     [kind |-> "error", status |-> 0, body |-> "RISK_REJECT"],
     [kind |-> "error", status |-> 0, body |-> "INTERNAL_ERROR"],
     [kind |-> "panic", status |-> 0, body |-> ""]}

IdleReq ==
    [pc |-> "idle", tenant |-> "t1", key |-> "", executor |-> FALSE,
     inserted |-> FALSE, wstatus |-> StatusOK, wbody |-> "", cerr |-> "none",
     cstatus |-> 0, cbody |-> "", op |-> "none", after |-> {}]

Done(r) == rq[r].pc = "done"

\* cmd/server/main.go wires the in-memory store
Init ==
    /\ backend = "mem"
    /\ records = [k \in FullKeys |-> Absent]
    /\ rq = [r \in Reqs |-> IdleReq]
    /\ RiskIdle
    /\ OrderIdle
    /\ FeedIdle

\* A request of a resolved tenant enters IdempotencyMiddleware. Without the
\* header (or tenant) the middleware calls c.Next() and touches no store.
Arrive(r) ==
    /\ rq[r].pc = "idle"
    /\ \E t \in Tenants, k \in HeaderValues :
          rq' = [rq EXCEPT ![r] = [@ EXCEPT !.tenant = t, !.key = k,
                    !.pc = IF k = "" THEN "handler" ELSE "getorlock",
                    !.after = {q \in Reqs : Done(q)}]]
    /\ UNCHANGED <<backend, records>>
    /\ IdemFrame

KeyOf(r) == FullKey(rq[r].tenant, rq[r].key)

\* The middleware's reaction to what GetOrLock returned.
AfterGetOrLock(r, rec, hit, inserted) ==
    IF hit THEN
        IF rec.Processing
        THEN [rq[r] EXCEPT !.pc = "done", !.cstatus = StatusConflict,
                           !.cbody = "request in progress"]
        ELSE [rq[r] EXCEPT !.pc = "done", !.cstatus = rec.Status,
                           !.cbody = rec.Body]
    ELSE [rq[r] EXCEPT !.pc = "handler", !.executor = TRUE, !.inserted = inserted]

\* A GetOrLock that tells the caller it holds the lock without recording it.
MemGetOrLock_NoInsert(r) ==
    /\ backend = "mem"
    /\ rq[r].pc = "getorlock"
    /\ IF records[KeyOf(r)] # Absent
       THEN rq' = [rq EXCEPT ![r] = AfterGetOrLock(r, records[KeyOf(r)], TRUE, FALSE)]
       ELSE rq' = [rq EXCEPT ![r] = AfterGetOrLock(r, Absent, FALSE, TRUE)]
    /\ UNCHANGED <<backend, records>>
    /\ IdemFrame

\* InMemIdempotencyStore.GetOrLock: one critical section under s.mu.
MemGetOrLock(r) ==
    /\ backend = "mem"
    /\ rq[r].pc = "getorlock"
    /\ IF records[KeyOf(r)] # Absent
       THEN /\ rq' = [rq EXCEPT ![r] = AfterGetOrLock(r, records[KeyOf(r)], TRUE, FALSE)]
            /\ UNCHANGED records
       ELSE /\ records' = [records EXCEPT ![KeyOf(r)] = LockedRecord]
            /\ rq' = [rq EXCEPT ![r] = AfterGetOrLock(r, Absent, FALSE, TRUE)]
    /\ UNCHANGED backend
    /\ IdemFrame

\* ------------------------------------------------ RedisIdempotencyStore
\* The wire form of a record: JSON with the body in base64.
Base64(body) == <<"b64", body>>

Unbase64(text) == text[2]

encodeIdemRecord(rec) ==
    [status |-> rec.Status, body |-> Base64(rec.Body), processing |-> rec.Processing]

decodeIdemRecord(raw) ==
    [Processing |-> raw.processing, Status |-> raw.status, Body |-> Unbase64(raw.body)]

\* RedisIdempotencyStore.GetOrLock, first command: SET key payload NX PX ttl.
\* The command fails (err # nil), or answers OK (the key was set), or nil.
RedisSetNX(r) ==
    /\ backend = "redis"
    /\ rq[r].pc = "getorlock"
    /\ \E cmdOk \in BOOLEAN :
          IF cmdOk /\ records[KeyOf(r)] = Absent
          THEN /\ records' = [records EXCEPT ![KeyOf(r)] = encodeIdemRecord(LockedRecord)]
               /\ rq' = [rq EXCEPT ![r] = AfterGetOrLock(r, Absent, FALSE, TRUE)]
          ELSE /\ rq' = [rq EXCEPT ![r].pc = "get"]
               /\ UNCHANGED records
    /\ UNCHANGED backend
    /\ IdemFrame

\* RedisIdempotencyStore.GetOrLock, second command: GET key. An error or a
\* nil answer returns (nil, false); a value is decoded and returned as a hit.
RedisGet(r) ==
    /\ backend = "redis"
    /\ rq[r].pc = "get"
    /\ \E cmdOk \in BOOLEAN :
          IF cmdOk /\ records[KeyOf(r)] # Absent
          THEN rq' = [rq EXCEPT ![r] =
                        AfterGetOrLock(r, decodeIdemRecord(records[KeyOf(r)]), TRUE, FALSE)]
          ELSE rq' = [rq EXCEPT ![r] = AfterGetOrLock(r, Absent, FALSE, FALSE)]
    /\ UNCHANGED <<backend, records>>
    /\ IdemFrame

\* --------------------------------------------- PostgresIdempotencyStore
\* gin's Recovery middleware (gin.Default) answers a panic with 500.
Recovered(req) == [req EXCEPT !.pc = "done", !.cstatus = StatusInternalServerError,
                              !.cbody = ""]

\* PostgresIdempotencyStore.GetOrLock, first statement: INSERT ... ON CONFLICT
\* DO NOTHING. Its error is discarded, so on failure result is nil and
\* result.RowsAffected() panics.
PgInsert(r) ==
    /\ backend = "pg"
    /\ rq[r].pc = "getorlock"
    /\ \E cmdOk \in BOOLEAN :
          IF ~cmdOk
          THEN /\ rq' = [rq EXCEPT ![r] = Recovered(rq[r])]
               /\ UNCHANGED records
          ELSE IF records[KeyOf(r)] = Absent
          THEN /\ records' = [records EXCEPT ![KeyOf(r)] = LockedRecord]
               /\ rq' = [rq EXCEPT ![r] = AfterGetOrLock(r, Absent, FALSE, TRUE)]
          ELSE /\ rq' = [rq EXCEPT ![r].pc = "get"]
               /\ UNCHANGED records
    /\ UNCHANGED backend
    /\ IdemFrame

\* PostgresIdempotencyStore.GetOrLock, second statement: SELECT ... WHERE key.
\* Any Scan error (a failure, or no row) returns (nil, false).
PgSelect(r) ==
    /\ backend = "pg"
    /\ rq[r].pc = "get"
    /\ \E cmdOk \in BOOLEAN :
          IF cmdOk /\ records[KeyOf(r)] # Absent
          THEN rq' = [rq EXCEPT ![r] = AfterGetOrLock(r, records[KeyOf(r)], TRUE, FALSE)]
          ELSE rq' = [rq EXCEPT ![r] = AfterGetOrLock(r, Absent, FALSE, FALSE)]
    /\ UNCHANGED <<backend, records>>
    /\ IdemFrame

\* ------------------------------------------------------ Save and Unlock
\* The store after Save(key, status, body); cmdOk is whether the backend's
\* command went through (the in-memory map cannot fail; errors are dropped).
Save(key, status, body, cmdOk) ==
    CASE backend = "mem" ->
            [records EXCEPT ![key] = CompletedRecord(status, body)]
      [] backend = "redis" ->
            IF cmdOk
            THEN [records EXCEPT ![key] = encodeIdemRecord(CompletedRecord(status, body))]
            ELSE records
      [] OTHER ->
            \* UPDATE ... WHERE key = $1 changes an existing row only
            IF cmdOk /\ records[key] # Absent
            THEN [records EXCEPT ![key] = CompletedRecord(status, body)]
            ELSE records

Unlock(key, cmdOk) ==
    IF backend = "mem" \/ cmdOk THEN [records EXCEPT ![key] = Absent] ELSE records

CmdResults == IF backend = "mem" THEN {TRUE} ELSE BOOLEAN

\* ------------------------------------------------------------- handler
\* c.Next() of the idempotency middleware: the route handler runs. A panic
\* unwinds past the middleware's step 5 and past ErrorHandler.
Handler(r) ==
    /\ rq[r].pc = "handler"
    /\ \E out \in HandlerOutcomes :
          rq' = [rq EXCEPT ![r] =
                    CASE out.kind = "write" ->
                            [@ EXCEPT !.pc = "post", !.wstatus = out.status,
                                      !.wbody = out.body, !.cstatus = out.status,
                                      !.cbody = out.body]
                      [] out.kind = "error" ->
                            [@ EXCEPT !.pc = "post", !.cerr = out.body]
                      [] OTHER -> Recovered(@)]
    /\ UNCHANGED <<backend, records>>
    /\ IdemFrame

\* Step 5 of IdempotencyMiddleware, after c.Next() returned: Save when
\* c.Writer.Status() < 500, else Unlock. Without the header it did return.
PostHandler(r) ==
    /\ rq[r].pc = "post"
    /\ IF rq[r].key = ""
       THEN /\ rq' = [rq EXCEPT ![r].pc = "errorhandler"]
            /\ UNCHANGED records
       ELSE \E cmdOk \in CmdResults :
              IF rq[r].wstatus < StatusInternalServerError
              THEN /\ records' = Save(KeyOf(r), rq[r].wstatus, rq[r].wbody, cmdOk)
                   /\ rq' = [rq EXCEPT ![r].pc = "errorhandler", ![r].op = "save"]
              ELSE /\ records' = Unlock(KeyOf(r), cmdOk)
                   /\ rq' = [rq EXCEPT ![r].pc = "errorhandler", ![r].op = "unlock"]
    /\ UNCHANGED backend
    /\ IdemFrame

\* ErrorHandler, the outermost middleware, after its c.Next() returned:
\* with an error recorded it writes the envelope with the error's status.
ErrorHandler(r) ==
    /\ rq[r].pc = "errorhandler"
    /\ rq' = [rq EXCEPT ![r] =
                IF rq[r].cerr = "none" THEN [@ EXCEPT !.pc = "done"]
                ELSE [@ EXCEPT !.pc = "done",
                               !.cstatus = mapTypeToStatus(rq[r].cerr),
                               !.cbody = Envelope(rq[r].cerr)]]
    /\ UNCHANGED <<backend, records>>
    /\ IdemFrame

Next ==
    \/ \E r \in Reqs : Arrive(r)
    \/ \E r \in Reqs : MemGetOrLock(r)
    \/ \E r \in Reqs : Handler(r)
    \/ \E r \in Reqs : PostHandler(r)
    \/ \E r \in Reqs : ErrorHandler(r)

Spec == Init /\ [][Next]_vars

\* The same pipeline over the Redis or the Postgres store.
InitStores ==
    /\ backend \in {"redis", "pg"}
    /\ records = [k \in FullKeys |-> Absent]
    /\ rq = [r \in Reqs |-> IdleReq]
    /\ RiskIdle
    /\ OrderIdle
    /\ FeedIdle

NextStores ==
    \/ \E r \in Reqs : Arrive(r)
    \/ \E r \in Reqs : RedisSetNX(r)
    \/ \E r \in Reqs : RedisGet(r)
    \/ \E r \in Reqs : PgInsert(r)
    \/ \E r \in Reqs : PgSelect(r)
    \/ \E r \in Reqs : Handler(r)
    \/ \E r \in Reqs : PostHandler(r)
    \/ \E r \in Reqs : ErrorHandler(r)

SpecStores == InitStores /\ [][NextStores]_vars

\* ------------------------------------------------ idempotency properties
Arrived(r) == rq[r].pc # "idle"

SameKey(r1, r2) ==
    /\ r1 # r2
    /\ Arrived(r1) /\ Arrived(r2)
    /\ rq[r1].key # ""
    /\ KeyOf(r1) = KeyOf(r2)

\* neither request had been answered when the other one arrived
Concurrent(r1, r2) == r1 \notin rq[r2].after /\ r2 \notin rq[r1].after

\* the request is the executor and has not yet given the key back
Executing(r) == rq[r].executor /\ rq[r].pc \in {"handler", "post"}

\* the route handler has been invoked for the request
Invoked(r) == rq[r].executor /\ rq[r].pc \in {"post", "errorhandler", "done"}

\* C1 (as stated): of two concurrent requests of one tenant with the same
\* idempotency key, served by the in-memory store, exactly one invokes the
\* handler.
C1_ExactlyOneInvokes ==
    \A r1, r2 \in Reqs :
        SameKey(r1, r2) /\ Concurrent(r1, r2) => ~(Invoked(r1) /\ Invoked(r2))

\* C1 (amended): with the in-memory store, two requests of one tenant with
\* the same key never hold the executor role at the same time; both invoke
\* the handler only when one of them ended with status >= 500 at the
\* idempotency layer and released the key; a request that is not executor
\* got 409 "request in progress" or the stored status and body.
C1_AtMostOneExecutorUnlessReleased ==
    \A r1, r2 \in Reqs :
        SameKey(r1, r2) =>
            /\ ~(Executing(r1) /\ Executing(r2))
            /\ Invoked(r1) /\ Invoked(r2) =>
                    rq[r1].op = "unlock" \/ rq[r2].op = "unlock"
            /\ Done(r1) /\ ~rq[r1].executor =>
                    \/ /\ rq[r1].cstatus = StatusConflict
                       /\ rq[r1].cbody = "request in progress"
                    \/ /\ ~records[KeyOf(r1)].Processing
                       /\ rq[r1].cstatus = records[KeyOf(r1)].Status
                       /\ rq[r1].cbody = records[KeyOf(r1)].Body

\* C1 witness: two concurrent requests on one key; one invoked the handler,
\* the other was answered 409 while the first held the Locked record.
C1_Witness ==
    \E r1, r2 \in Reqs :
        /\ SameKey(r1, r2) /\ Concurrent(r1, r2)
        /\ Invoked(r1)
        /\ Done(r2) /\ ~rq[r2].executor /\ rq[r2].cstatus = StatusConflict

\* C2: after a request with key k was answered with a status below 500,
\* every later request of the tenant with key k gets the same status and
\* body as that first client, and does not invoke the handler.
C2_ReplayIsWhatFirstClientGot ==
    \A e, r \in Reqs :
        /\ SameKey(e, r) /\ e \in rq[r].after
        /\ Invoked(e) /\ rq[e].cstatus < StatusInternalServerError
        /\ Done(r)
        => /\ rq[r].cstatus = rq[e].cstatus
           /\ rq[r].cbody = rq[e].cbody
           /\ ~Invoked(r)

\* C3: when the executor of key k is answered with a status >= 500 made from
\* a handler error, the middleware unlocks (deletes) the record and saves
\* nothing, so the key is free for the next request.
C3_ServerErrorReleasesKey ==
    \A e \in Reqs :
        /\ Done(e) /\ rq[e].executor /\ rq[e].cerr # "none"
        /\ rq[e].cstatus >= StatusInternalServerError
        => rq[e].op = "unlock"

\* C37: a record is Locked only while the request that locked it is being
\* served: when that request has ended, however it ended (also by a panic of
\* the handler that the recovery middleware answered), the record is
\* Completed or deleted, and no key answers 409 for ever.
C37_LockEndsWithTheRequest ==
    \A k \in FullKeys :
        records[k] = LockedRecord =>
            \E r \in Reqs : Executing(r) /\ rq[r].key # "" /\ KeyOf(r) = k

\* C4: in every backend GetOrLock makes a caller executor only when that
\* caller's own call inserted the Locked record, and no two callers are
\* executor of one key at the same time.
C4_ExecutorOnlyByOwnInsert ==
    /\ \A r \in Reqs : rq[r].executor => rq[r].inserted
    /\ \A r1, r2 \in Reqs : SameKey(r1, r2) => ~(Executing(r1) /\ Executing(r2))

\* ------------------------------------------------- the risk engine alone
\* One CheckOrder call on arbitrary arguments.
InitRisk ==
    /\ backend = "mem"
    /\ records = [k \in FullKeys |-> Absent]
    /\ rq = [r \in Reqs |-> IdleReq]
    /\ riskIn \in [config : RiskConfigs, req : OrderRequests,
                   book : BookViews, usage : UsageResults]
    /\ riskOut = Pending
    /\ OrderIdle
    /\ FeedIdle

CallCheckOrder ==
    /\ riskOut = Pending
    /\ riskOut' = CheckOrder(riskIn.config, riskIn.req, riskIn.book, riskIn.usage)
    /\ UNCHANGED <<riskIn, idemVars, orderVars, feedVars, connVars, nonceVars, gwVars, lateVars>>

NextRisk == CallCheckOrder

SpecRisk == InitRisk /\ [][NextRisk]_vars

\* The seven checks as the documentation lists them: does check i refuse
\* the arguments of the call?
Refuses(i) ==
    LET config == riskIn.config
        req == riskIn.req
        book == riskIn.book
        value == req.Price * req.Size
    IN  CASE i = 1 -> req.Price <= 0 \/ req.Price >= PriceOne
          [] i = 2 -> req.Size <= 0
          [] i = 3 -> config.MaxOrderValue > 0 /\ value > config.MaxOrderValue
          [] i = 4 -> /\ config.MaxSlippage > 0 /\ book.present
                      /\ \/ book.age > StaleAfter
                         \/ /\ req.Side = "BUY" /\ book.Asks # <<>>
                            /\ req.Price * PriceOne >
                                   book.Asks[1].Price * (PriceOne + config.MaxSlippage)
                         \/ /\ req.Side # "BUY" /\ book.Bids # <<>>
                            /\ req.Price * PriceOne <
                                   book.Bids[1].Price * (PriceOne - config.MaxSlippage)
          [] i = 5 -> req.TokenID \in config.RestrictedMkts
          [] i = 6 -> config.MaxDailyValue > 0
                      /\ riskIn.usage.vol + value > config.MaxDailyValue
          [] OTHER -> config.MaxDailyOrders > 0
                      /\ riskIn.usage.orders + 1 > config.MaxDailyOrders

ReasonsOf(i) ==
    CASE i = 1 -> {"price_bounds"}
      [] i = 2 -> {"invalid_size"}
      [] i = 3 -> {"max_value"}
      [] i = 4 -> {"slippage", "stale_data"}
      [] i = 5 -> {"restricted_market"}
      [] i = 6 -> {"daily_volume_limit"}
      [] OTHER -> {"daily_order_limit"}

\* the checks that do not need the usage store
StaticChecks == 1..5

UsageChecks == {6, 7}

CheckReturned == riskOut # Pending

\* C6: CheckOrder returns the reason of the first check, in the order
\* price_bounds, invalid_size, max_value, slippage/stale_data,
\* restricted_market, daily_volume_limit, daily_order_limit, that refuses the
\* order; a static refusal leaves the usage store unread; a stale book under
\* a slippage limit gives stale_data; the order is accepted only when no
\* enabled check refuses it.
C6_FirstFailingCheckWins ==
    CheckReturned =>
        LET static == {i \in StaticChecks : Refuses(i)}
            daily == {i \in UsageChecks : Refuses(i)}
            first(S) == CHOOSE i \in S : \A j \in S : i <= j
        IN  /\ static # {} =>
                /\ riskOut.reason \in ReasonsOf(first(static))
                /\ ~riskOut.usageRead
            /\ /\ static \cap {1, 2, 3} = {}
               /\ riskIn.config.MaxSlippage > 0
               /\ riskIn.book.present /\ riskIn.book.age > StaleAfter
               => riskOut.reason = "stale_data"
            /\ static = {} /\ ~riskIn.usage.err /\ daily # {} =>
                riskOut.reason \in ReasonsOf(first(daily))
            /\ static = {} /\ ~riskIn.usage.err /\ daily = {} =>
                riskOut.reason = "ok"
            /\ riskOut.reason = "ok" =>
                /\ static = {}
                /\ DailyLimitConfigured(riskIn.config) =>
                        ~riskIn.usage.err /\ daily = {}
            /\ riskOut.usageRead =>
                static = {} /\ DailyLimitConfigured(riskIn.config)

\* C6 witness: a restricted market whose order would also break the daily
\* volume limit is refused as restricted_market, the store unread.
C6_Witness ==
    /\ CheckReturned
    /\ ~Refuses(1) /\ ~Refuses(2) /\ ~Refuses(3) /\ ~Refuses(4)
    /\ Refuses(5) /\ Refuses(6)
    /\ riskOut.reason = "restricted_market"
    /\ ~riskOut.usageRead

\* ---------------------------------------------------------- the order path
\* GatewayService.PlaceOrder, cut at its calls to the usage store and to the
\* exchange, next to ActivatePanicMode. The handler maps a returned error
\* with mapServiceError and ErrorHandler answers with the mapped status.
InitOrder ==
    /\ backend = "mem"
    /\ records = [k \in FullKeys |-> Absent]
    /\ rq = [r \in Reqs |-> IdleReq]
    /\ RiskIdle
    /\ panicMode = FALSE
    /\ panicReq = [pc |-> "idle", err |-> FALSE]
    /\ usageBackend \in UsageBackends
    /\ tenantRisk \in TenantRisks
    /\ dailyOrders = 0
    /\ dailyVolume = 0
    /\ calls = [c \in Calls |-> IdleCall]
    /\ FeedIdle

OrderFrame ==
    UNCHANGED <<idemVars, riskVars, feedVars, connVars, nonceVars, gwVars, lateVars,
                usageBackend, tenantRisk>>

\* PlaceOrder returned err: OrderHandler.PlaceOrder and ErrorHandler
Failed(call, msg) ==
    [call EXCEPT !.pc = "done", !.err = msg, !.code = mapServiceError(msg),
                 !.status = mapTypeToStatus(mapServiceError(msg))]

\* PlaceOrder returned a response
Succeeded(call) == [call EXCEPT !.pc = "done", !.status = StatusOK]

OrderValue(req) == req.Price * req.Size

\* the entry of PlaceOrder with the panic gate left out
PlaceOrderEntry_NoGate(c) ==
    /\ calls[c].pc = "idle"
    /\ \E req \in PlacedOrders :
          calls' = [calls EXCEPT ![c] =
                      [@ EXCEPT !.pc = "risk", !.req = req,
                                !.afterPanic = panicReq.pc # "idle"]]
    /\ UNCHANGED <<panicMode, panicReq, dailyOrders, dailyVolume>>
    /\ OrderFrame

\* PlaceOrder, first statement: the panic gate
PlaceOrderEntry(c) ==
    /\ calls[c].pc = "idle"
    /\ \E req \in PlacedOrders :
          calls' = [calls EXCEPT ![c] =
                      IF panicMode
                      THEN Failed([@ EXCEPT !.req = req,
                                            !.afterPanic = panicReq.pc # "idle"],
                                  {"panic"})
                      ELSE [@ EXCEPT !.pc = "risk", !.req = req,
                                     !.afterPanic = panicReq.pc # "idle"]]
    /\ UNCHANGED <<panicMode, panicReq, dailyOrders, dailyVolume>>
    /\ OrderFrame

\* the error text of a CheckOrder refusal
RiskError(reason) == IF reason = "usage_error" THEN {} ELSE {"risk reject"}

AfterCheckOrder(call, res) ==
    IF res.reason = "ok"
    THEN [call EXCEPT !.pc = "prepare", !.checked = TRUE]
    ELSE Failed([call EXCEPT !.checked = TRUE], RiskError(res.reason))

ZeroUsage == [err |-> FALSE, orders |-> 0, vol |-> 0]

StoredUsage == [err |-> FALSE, orders |-> dailyOrders, vol |-> dailyVolume]

NeedsUsage(c) == CheckOrder(tenantRisk, calls[c].req, NoBook, ZeroUsage).usageRead

\* What GetDailyUsage returns when its query went through (ok) or not:
\* RiskUsageStore reads under its lock; PostgresRiskRepo returns 0, 0, nil on
\* every Scan error; the go-redis client returns the error of its pipeline.
GetDailyUsage(ok) ==
    IF usageBackend = "mem" \/ ok THEN StoredUsage
    ELSE IF usageBackend = "goredis" THEN [ZeroUsage EXCEPT !.err = TRUE]
    ELSE ZeroUsage

\* CheckOrder over a store that reads in one query, or without a read
RiskCheck(c) ==
    /\ calls[c].pc = "risk"
    /\ usageBackend # "redis" \/ ~NeedsUsage(c)
    /\ \E ok \in IF usageBackend # "mem" /\ NeedsUsage(c) THEN BOOLEAN ELSE {TRUE} :
          calls' = [calls EXCEPT ![c] =
                      AfterCheckOrder([@ EXCEPT !.usageFailed = ~ok],
                          CheckOrder(tenantRisk, @.req, NoBook, GetDailyUsage(ok)))]
    /\ UNCHANGED <<panicMode, panicReq, dailyOrders, dailyVolume>>
    /\ OrderFrame

\* RedisUsageRepo.GetDailyUsage, HGET orders: an error leaves orders at 0
RedisHGetOrders(c) ==
    /\ calls[c].pc = "risk"
    /\ usageBackend = "redis" /\ NeedsUsage(c)
    /\ \E ok \in BOOLEAN :
          calls' = [calls EXCEPT ![c] =
                      [@ EXCEPT !.pc = "hget", !.usageFailed = ~ok,
                                !.ordersRead = IF ok THEN dailyOrders ELSE 0]]
    /\ UNCHANGED <<panicMode, panicReq, dailyOrders, dailyVolume>>
    /\ OrderFrame

\* ... HGET volume, return orders, volume, nil, and the daily checks
RedisHGetVolume(c) ==
    /\ calls[c].pc = "hget"
    /\ \E ok \in BOOLEAN :
          calls' = [calls EXCEPT ![c] =
                      AfterCheckOrder([@ EXCEPT !.usageFailed = @ \/ ~ok],
                          CheckOrder(tenantRisk, @.req, NoBook,
                              [err |-> FALSE, orders |-> @.ordersRead,
                               vol |-> IF ok THEN dailyVolume ELSE 0]))]
    /\ UNCHANGED <<panicMode, panicReq, dailyOrders, dailyVolume>>
    /\ OrderFrame

\* error texts of steps 3 to 7 before the submission: a missing or invalid
\* signature, a slippage refusal, anything else
PrepareErrors == {{"signature"}, {"risk reject"}, {}}

\* signer, credentials, signable order, slippage, signing or verification
Prepare(c) ==
    /\ calls[c].pc = "prepare"
    /\ \/ calls' = [calls EXCEPT ![c] = [@ EXCEPT !.pc = "submit", !.signed = TRUE]]
       \/ \E msg \in PrepareErrors : calls' = [calls EXCEPT ![c] = Failed(@, msg)]
    /\ UNCHANGED <<panicMode, panicReq, dailyOrders, dailyVolume>>
    /\ OrderFrame

\* "polymarket api error: ..." with or without the word nonce
SubmitErrors == {{}, {"nonce"}}

\* CLOB.PostOrder
Submit(c) ==
    /\ calls[c].pc = "submit"
    /\ \/ calls' = [calls EXCEPT ![c] =
                      [@ EXCEPT !.pc = "hook", !.submitted = TRUE, !.accepted = TRUE]]
       \/ \E msg \in SubmitErrors :
             calls' = [calls EXCEPT ![c] = Failed([@ EXCEPT !.submitted = TRUE], msg)]
    /\ UNCHANGED <<panicMode, panicReq, dailyOrders, dailyVolume>>
    /\ OrderFrame

\* PostOrderHook over RiskUsageStore (both maps under one lock) or over
\* PostgresRiskRepo (one upsert); the error is dropped.
PostOrderHook(c) ==
    /\ calls[c].pc = "hook"
    /\ usageBackend \in {"mem", "pg"}
    /\ \E ok \in IF usageBackend = "pg" THEN BOOLEAN ELSE {TRUE} :
          /\ dailyOrders' = IF ok THEN dailyOrders + 1 ELSE dailyOrders
          /\ dailyVolume' = IF ok THEN dailyVolume + OrderValue(calls[c].req)
                                  ELSE dailyVolume
          /\ calls' = [calls EXCEPT ![c] = Succeeded([@ EXCEPT !.hookFailed = ~ok])]
    /\ UNCHANGED <<panicMode, panicReq>>
    /\ OrderFrame

\* PostOrderHook over RedisUsageRepo: HINCRBY orders, return on its error
RedisHIncrBy(c) ==
    /\ calls[c].pc = "hook"
    /\ usageBackend = "redis"
    /\ \/ /\ dailyOrders' = dailyOrders + 1
          /\ calls' = [calls EXCEPT ![c].pc = "hincrbyfloat"]
       \/ /\ UNCHANGED dailyOrders
          /\ calls' = [calls EXCEPT ![c] = Succeeded([@ EXCEPT !.hookFailed = TRUE])]
    /\ UNCHANGED <<panicMode, panicReq, dailyVolume>>
    /\ OrderFrame

\* ... then HINCRBYFLOAT volume. Amounts are whole ticks, which the "%f"
\* formatting of the amount keeps.
RedisHIncrByFloat(c) ==
    /\ calls[c].pc = "hincrbyfloat"
    /\ \E ok \in BOOLEAN :
          /\ dailyVolume' = IF ok THEN dailyVolume + OrderValue(calls[c].req)
                                  ELSE dailyVolume
          /\ calls' = [calls EXCEPT ![c] = Succeeded([@ EXCEPT !.hookFailed = ~ok])]
    /\ UNCHANGED <<panicMode, panicReq, dailyOrders>>
    /\ OrderFrame

\* PostOrderHook over the go-redis client: a pipeline, not a transaction,
\* whose first command is INCRBYFLOAT on the volume key
PipelineIncrByFloat(c) ==
    /\ calls[c].pc = "hook"
    /\ usageBackend = "goredis"
    /\ \/ /\ dailyVolume' = dailyVolume + OrderValue(calls[c].req)
          /\ calls' = [calls EXCEPT ![c].pc = "incrby"]
       \/ /\ UNCHANGED dailyVolume
          /\ calls' = [calls EXCEPT ![c] = Succeeded([@ EXCEPT !.hookFailed = TRUE])]
    /\ UNCHANGED <<panicMode, panicReq, dailyOrders>>
    /\ OrderFrame

\* ... and whose second is INCRBY on the count key
PipelineIncrBy(c) ==
    /\ calls[c].pc = "incrby"
    /\ \E ok \in BOOLEAN :
          /\ dailyOrders' = IF ok THEN dailyOrders + 1 ELSE dailyOrders
          /\ calls' = [calls EXCEPT ![c] = Succeeded([@ EXCEPT !.hookFailed = ~ok])]
    /\ UNCHANGED <<panicMode, panicReq, dailyVolume>>
    /\ OrderFrame

\* ActivatePanicMode, first statement: panicMode.Store(true)
PanicStore ==
    /\ panicReq.pc = "idle"
    /\ panicMode' = TRUE
    /\ panicReq' = [panicReq EXCEPT !.pc = "cancel"]
    /\ UNCHANGED <<dailyOrders, dailyVolume, calls>>
    /\ OrderFrame

\* ... then CancelAllOrders, whose error it returns
PanicCancelAll ==
    /\ panicReq.pc = "cancel"
    /\ \E err \in BOOLEAN : panicReq' = [pc |-> "done", err |-> err]
    /\ UNCHANGED <<panicMode, dailyOrders, dailyVolume, calls>>
    /\ OrderFrame

NextOrder ==
    \/ \E c \in Calls : PlaceOrderEntry(c)
    \/ \E c \in Calls : RiskCheck(c)
    \/ \E c \in Calls : RedisHGetOrders(c)
    \/ \E c \in Calls : RedisHGetVolume(c)
    \/ \E c \in Calls : Prepare(c)
    \/ \E c \in Calls : Submit(c)
    \/ \E c \in Calls : PostOrderHook(c)
    \/ \E c \in Calls : RedisHIncrBy(c)
    \/ \E c \in Calls : RedisHIncrByFloat(c)
    \/ \E c \in Calls : PipelineIncrByFloat(c)
    \/ \E c \in Calls : PipelineIncrBy(c)
    \/ PanicStore
    \/ PanicCancelAll

SpecOrder == InitOrder /\ [][NextOrder]_vars

PanicInvoked == panicReq.pc # "idle"

CallReturned(c) == calls[c].pc = "done"

\* C5: once ActivatePanicMode has been invoked the flag is set in every
\* later state, whatever CancelAll returned, and every PlaceOrder that starts
\* afterwards fails with SYSTEM_PANIC and status 503 before any risk check,
\* signing or submission.
C5_PanicSuspendsTrading ==
    /\ PanicInvoked => panicMode
    /\ \A c \in Calls :
          calls[c].afterPanic =>
              /\ CallReturned(c)
              /\ calls[c].code = "SYSTEM_PANIC"
              /\ calls[c].status = StatusServiceUnavailable
              /\ ~calls[c].checked /\ ~calls[c].signed /\ ~calls[c].submitted

\* C5 witness: CancelAll failed, an order had been accepted before the
\* panic, and a PlaceOrder that started after it was refused.
C5_Witness ==
    /\ panicReq = [pc |-> "done", err |-> TRUE]
    /\ \E c, d \in Calls :
          /\ calls[c].afterPanic /\ CallReturned(c) /\ calls[c].code = "SYSTEM_PANIC"
          /\ ~calls[d].afterPanic /\ calls[d].accepted

\* C7: with a daily limit configured, a PlaceOrder whose usage read failed
\* is rejected by CheckOrder and nothing is submitted, whatever the backend.
C7_UsageFailureRejects ==
    \A c \in Calls :
        /\ DailyLimitConfigured(tenantRisk)
        /\ calls[c].usageFailed /\ calls[c].checked
        => /\ CallReturned(c) /\ calls[c].code # ""
           /\ ~calls[c].submitted

UsageChanges == dailyOrders' # dailyOrders \/ dailyVolume' # dailyVolume

AcceptedValue(S) ==
    LET RECURSIVE sum(_)
        sum(T) == IF T = {} THEN 0
                  ELSE LET c == CHOOSE x \in T : TRUE
                       IN OrderValue(calls[c].req) + sum(T \ {c})
    IN sum(S)

\* C8: the usage counters change only by an accepted order, by 1 order and
\* price times size in one step, and once every PlaceOrder has returned they
\* hold the count and the value of the accepted orders.
C8_UsageFollowsAcceptedOrders ==
    /\ [][UsageChanges =>
            \E c \in Calls :
                /\ calls[c].accepted
                /\ dailyOrders' = dailyOrders + 1
                /\ dailyVolume' = dailyVolume + OrderValue(calls[c].req)]_vars
    /\ [](LET acc == {c \in Calls : calls[c].accepted}
          IN  (\A c \in Calls : calls[c].pc \in {"idle", "done"}) =>
                  /\ dailyOrders = Cardinality(acc)
                  /\ dailyVolume = AcceptedValue(acc))

\* C35: for a tenant with max_daily_orders N > 0 the exchange accepts at
\* most N of its orders, and with max_daily_value V > 0 orders of a total
\* value of at most V, however the PlaceOrder calls interleave.
C35_DailyLimitsHold ==
    LET acc == {c \in Calls : calls[c].accepted}
    IN  /\ tenantRisk.MaxDailyOrders > 0 => Cardinality(acc) <= tenantRisk.MaxDailyOrders
        /\ tenantRisk.MaxDailyValue > 0 => AcceptedValue(acc) <= tenantRisk.MaxDailyValue

\* C36: with the panic flag set no order is submitted any more, also not by
\* a PlaceOrder that passed the gate before; and none is accepted by the
\* exchange after the cancel-all of ActivatePanicMode.
C36_NoSubmitUnderPanic ==
    [][\A c \in Calls :
          /\ panicMode /\ ~calls[c].submitted => ~calls'[c].submitted
          /\ panicReq.pc = "done" /\ ~calls[c].accepted => ~calls'[c].accepted]_vars

\* ------------------------------------------------------- the market feed
\* MarketService: Subscribe and the read loop applying book messages.
InitFeed ==
    /\ backend = "mem"
    /\ records = [k \in FullKeys |-> Absent]
    /\ rq = [r \in Reqs |-> IdleReq]
    /\ RiskIdle
    /\ OrderIdle
    /\ books = [t \in Tokens |-> NoOrderbook]
    /\ feed = IdleFeed
    /\ api = IdleApi
    /\ reader = IdleReader
    /\ ConnIdle
    /\ NonceIdle
    /\ GwIdle
    /\ LateIdle

FeedFrame ==
    UNCHANGED <<idemVars, riskVars, orderVars, connVars, nonceVars, gwVars, lateVars, api,
                reader>>

\* the tokens the gateway subscribes to
SubscribedTokens == {"T1"}

\* Subscribe: a token not yet in subs gets an empty book
Subscribe(t) ==
    /\ ~books[t].exists
    /\ books' = [books EXCEPT ![t] = NewOrderbook]
    /\ UNCHANGED feed
    /\ FeedFrame

\* the Update calls processBookMessage makes for a message, in its order
UpdatesOf(msg) ==
    [i \in 1..Len(msg.Bids) |-> <<"BUY", msg.Bids[i].Price, msg.Bids[i].Size>>]
    \o [i \in 1..Len(msg.Asks) |-> <<"SELL", msg.Asks[i].Price, msg.Asks[i].Size>>]

\* readLoop hands the next book message to processBookMessage, which looks
\* the book up and returns when there is none
ReadBookMessage(msg) ==
    /\ feed.pc \in {"idle", "processed"}
    /\ feed' = [pc |-> IF books[msg.Market].exists /\ UpdatesOf(msg) # <<>>
                       THEN "applying" ELSE "processed",
                msg |-> msg,
                todo |-> IF books[msg.Market].exists THEN UpdatesOf(msg) ELSE <<>>,
                pre |-> books[msg.Market]]
    /\ UNCHANGED books
    /\ FeedFrame

\* processBookMessage: the next book.Update of the message in hand, each
\* under its own lock
ApplyLevel ==
    /\ feed.pc = "applying"
    /\ LET u == Head(feed.todo)
       IN  books' = [books EXCEPT ![feed.msg.Market] = Update(@, u[1], u[2], u[3])]
    /\ feed' = [feed EXCEPT !.todo = Tail(@),
                            !.pc = IF Tail(feed.todo) = <<>> THEN "processed"
                                   ELSE "applying"]
    /\ FeedFrame

\* more than StaleAfter seconds go by without a write to the book
TimePasses(t) ==
    /\ books[t].exists /\ books[t].fresh
    /\ books' = [books EXCEPT ![t].fresh = FALSE]
    /\ UNCHANGED feed
    /\ FeedFrame

NextFeed ==
    \/ \E t \in SubscribedTokens : Subscribe(t)
    \/ \E msg \in WSMessages : ReadBookMessage(msg)
    \/ ApplyLevel
    \/ \E t \in Tokens : TimePasses(t)

SpecFeed == InitFeed /\ [][NextFeed]_vars

\* the levels a ladder of raw levels describes: parsable, of non-zero size
LevelsOfRaw(raw) ==
    {Level(NewFromString(raw[i].Price), NewFromString(raw[i].Size)) :
        i \in {j \in 1..Len(raw) :
                  /\ NewFromString(raw[j].Price) # ParseError
                  /\ NewFromString(raw[j].Size) \notin {ParseError, 0}}}

LevelsOf(levels) == {levels[i] : i \in 1..Len(levels)}

PricesOfRaw(raw) == {NewFromString(raw[i].Price) : i \in 1..Len(raw)}

Untouched(before, after, listed) ==
    {l \in LevelsOf(before) : l.Price \notin listed}
        = {l \in LevelsOf(after) : l.Price \notin listed}

\* C9: when the feed has processed a book message for a subscribed token,
\* then, if the message carries a hash, the book holds exactly the levels of
\* the message, and if it carries none, the levels at prices the message
\* does not list are as before.
C9_SnapshotReplacesBook ==
    feed.pc = "processed" /\ feed.pre.exists =>
        LET ob == books[feed.msg.Market]
        IN  IF feed.msg.Hash # ""
            THEN /\ LevelsOf(ob.Bids) = LevelsOfRaw(feed.msg.Bids)
                 /\ LevelsOf(ob.Asks) = LevelsOfRaw(feed.msg.Asks)
            ELSE /\ Untouched(feed.pre.Bids, ob.Bids, PricesOfRaw(feed.msg.Bids))
                 /\ Untouched(feed.pre.Asks, ob.Asks, PricesOfRaw(feed.msg.Asks))

\* ------------------------------------------------- the Orderbook object
\* One Orderbook used directly: Snapshot, Update and GetCopy, and a caller
\* that writes to the slices it passed in or got back.
InitBook ==
    /\ backend = "mem"
    /\ records = [k \in FullKeys |-> Absent]
    /\ rq = [r \in Reqs |-> IdleReq]
    /\ RiskIdle
    /\ OrderIdle
    /\ books = [t \in Tokens |-> IF t = "T1" THEN NewOrderbook ELSE NoOrderbook]
    /\ feed = IdleFeed
    /\ api = IdleApi
    /\ reader = IdleReader
    /\ ConnIdle
    /\ NonceIdle
    /\ GwIdle
    /\ LateIdle

BookFrame ==
    UNCHANGED <<idemVars, riskVars, orderVars, connVars, nonceVars, gwVars, lateVars, feed,
                reader>>

\* the ladders callers pass to Snapshot
SnapshotBids ==
    UNION {[1..n -> {Level(1, 20), Level(2, 20)}] : n \in 0..MaxLevels}

SnapshotAsks == {<<>>, <<Level(2, 20)>>}

\* Snapshot stores the two slices it is given and stamps the book
Snapshot(bids, asks) ==
    /\ books' = [books EXCEPT !["T1"] =
                    [@ EXCEPT !.Bids = bids, !.Asks = asks, !.fresh = TRUE]]
    /\ api' = [api EXCEPT !.args = [Bids |-> bids, Asks |-> asks],
                          !.held = [Bids |-> bids, Asks |-> asks],
                          !.shared = TRUE, !.snapped = TRUE, !.last = "Snapshot"]
    /\ BookFrame

\* Update through the API. The model follows the arrays shared with the
\* caller of Snapshot until the book is first written again, and forgets
\* the caller's slices then.
ApiUpdate(side, priceStr, sizeStr) ==
    /\ books' = [books EXCEPT !["T1"] = Update(@, side, priceStr, sizeStr)]
    /\ api' = IF books' = books THEN [api EXCEPT !.last = "Update"]
              ELSE [api EXCEPT !.shared = FALSE, !.snapped = FALSE,
                               !.held = IdleApi.held, !.last = "Update"]
    /\ BookFrame

\* GetCopy: make and copy for both ladders
GetCopy ==
    /\ api' = [api EXCEPT !.got = [Bids |-> books["T1"].Bids, Asks |-> books["T1"].Asks],
                          !.last = "GetCopy"]
    /\ UNCHANGED books
    /\ BookFrame

\* what the caller writes into a slice element
WrittenLevel == Level(1, 28)

\* the caller assigns to an element of the bids slice it passed to Snapshot;
\* the book reads the same array while it shares it
WriteHeld(i) ==
    /\ i \in 1..Len(api.held.Bids)
    /\ api.held.Bids[i] # WrittenLevel
    /\ api' = [api EXCEPT !.held.Bids[i] = WrittenLevel, !.last = "WriteHeld"]
    /\ books' = IF api.shared
                THEN [books EXCEPT !["T1"].Bids[i] = WrittenLevel]
                ELSE books
    /\ BookFrame

\* the caller assigns to an element of the bids slice GetCopy returned
WriteGot(i) ==
    /\ i \in 1..Len(api.got.Bids)
    /\ api.got.Bids[i] # WrittenLevel
    /\ api' = [api EXCEPT !.got.Bids[i] = WrittenLevel, !.last = "WriteGot"]
    /\ UNCHANGED books
    /\ BookFrame

NextBook ==
    \/ \E bids \in SnapshotBids, asks \in SnapshotAsks : Snapshot(bids, asks)
    \/ \E side \in Sides, sz \in {"0", "7"} : ApiUpdate(side, "0.5", sz)
    \/ GetCopy
    \/ \E i \in 1..MaxLevels : WriteHeld(i)
    \/ \E i \in 1..MaxLevels : WriteGot(i)
    \/ \E t \in Tokens : TimePasses(t)

SpecBook == InitBook /\ [][NextBook]_vars

\* no level stands before one that should precede it
InOrder(levels, descending) ==
    \A i \in 1..(Len(levels) - 1) : ~Before(levels[i + 1], levels[i], descending)

\* C10: a GetCopy made while the book is as Snapshot(B, A) left it returns
\* the levels of B and A, bids descending and asks ascending; and writing to
\* the returned slices, or to the slices passed to Snapshot, leaves the book
\* as it was.
C10_SnapshotThenCopy ==
    /\ [](api.last = "GetCopy" /\ api.snapped =>
            /\ LevelsOf(api.got.Bids) = LevelsOf(api.args.Bids)
            /\ LevelsOf(api.got.Asks) = LevelsOf(api.args.Asks)
            /\ InOrder(api.got.Bids, TRUE)
            /\ InOrder(api.got.Asks, FALSE))
    /\ [][api'.last \in {"WriteHeld", "WriteGot"} /\ api' # api => books' = books]_vars

NoDuplicatePrice(levels) ==
    \A i, j \in 1..Len(levels) : levels[i].Price = levels[j].Price => i = j

\* the levels at other prices, in their order
Others(levels, price) == SelectSeq(levels, LAMBDA l : l.Price # price)

\* C11: whatever Snapshot and Update calls were made, no side of the book
\* holds two levels of one price; and right after Update(side, "0.5", "0")
\* that side holds no level at 0.5 while every other level of both sides is
\* as before.
C11_NoDuplicateAndZeroRemoves ==
    /\ [](NoDuplicatePrice(books["T1"].Bids) /\ NoDuplicatePrice(books["T1"].Asks))
    /\ [][/\ ApiUpdate("BUY", "0.5", "0") =>
                /\ IndexOfPrice(books'["T1"].Bids, NewFromString("0.5")) = 0
                /\ Others(books'["T1"].Bids, NewFromString("0.5"))
                       = Others(books["T1"].Bids, NewFromString("0.5"))
                /\ books'["T1"].Asks = books["T1"].Asks
          /\ ApiUpdate("SELL", "0.5", "0") =>
                /\ IndexOfPrice(books'["T1"].Asks, NewFromString("0.5")) = 0
                /\ Others(books'["T1"].Asks, NewFromString("0.5"))
                       = Others(books["T1"].Asks, NewFromString("0.5"))
                /\ books'["T1"].Bids = books["T1"].Bids]_vars

\* ------------------------------------------------- readers of the book
\* The feed next to one reader of the book of T1: OrderHandler.GetOrderbook
\* or the price deviation block of RiskEngine.CheckOrder.
ReaderFrame ==
    UNCHANGED <<idemVars, riskVars, orderVars, connVars, nonceVars, gwVars, lateVars, books,
                feed, api>>

\* the stream messages of this setting
ReaderMessages ==
    {[Market |-> "T1", Hash |-> "h1", Bids |-> <<[Price |-> "0.5", Size |-> "5"]>>,
      Asks |-> <<[Price |-> "0.50", Size |-> "5"]>>],
     [Market |-> "T1", Hash |-> "", Bids |-> <<[Price |-> "0.5", Size |-> "0"]>>,
      Asks |-> <<[Price |-> "0.50", Size |-> "7"]>>],
     [Market |-> "T1", Hash |-> "", Bids |-> <<[Price |-> "0.25", Size |-> "7"]>>,
      Asks |-> <<>>]}

\* processBookMessage has made some but not all Update calls of its message
MidMessage ==
    feed.pc = "applying" /\ Len(feed.todo) < Len(UpdatesOf(feed.msg))

ReaderKinds == {"handler", "risk"}

\* The first read. GetOrderbook calls GetCopy, which copies both ladders
\* under the read lock; CheckOrder reads book.LastUpdated, without the lock.
ReaderFirstRead(kind) ==
    /\ reader.pc = "idle"
    /\ books["T1"].exists
    /\ LET ob == books["T1"]
       IN  reader' =
             IF kind = "handler"
             THEN [reader EXCEPT !.pc = "second", !.kind = kind,
                       !.bids1 = ob.Bids, !.asks1 = ob.Asks, !.fresh1 = ob.fresh,
                       !.Bids = ob.Bids, !.Asks = ob.Asks, !.partial = MidMessage]
             ELSE [reader EXCEPT !.pc = "second", !.kind = kind,
                       !.bids1 = ob.Bids, !.asks1 = ob.Asks, !.fresh1 = ob.fresh,
                       !.fresh = ob.fresh]
    /\ ReaderFrame

\* The second read. GetOrderbook reads book.LastUpdated for its response,
\* without the lock; CheckOrder calls GetCopy.
ReaderSecondRead ==
    /\ reader.pc = "second"
    /\ LET ob == books["T1"]
           same == \/ ob.fresh = reader.fresh1
                   \/ ob.Bids = reader.bids1 /\ ob.Asks = reader.asks1
       IN  reader' =
             IF reader.kind = "handler"
             THEN [reader EXCEPT !.pc = "done", !.fresh = ob.fresh, !.oneState = same,
                       !.bids1 = <<>>, !.asks1 = <<>>, !.fresh1 = FALSE]
             ELSE [reader EXCEPT !.pc = "done", !.Bids = ob.Bids, !.Asks = ob.Asks,
                       !.partial = MidMessage, !.oneState = same,
                       !.bids1 = <<>>, !.asks1 = <<>>, !.fresh1 = FALSE]
    /\ ReaderFrame

NextReaders ==
    \/ \E t \in SubscribedTokens : Subscribe(t)
    \/ \E msg \in ReaderMessages : ReadBookMessage(msg)
    \/ ApplyLevel
    \/ \E t \in SubscribedTokens : TimePasses(t)
    \/ \E kind \in ReaderKinds : ReaderFirstRead(kind)
    \/ ReaderSecondRead

SpecReaders == InitFeed /\ [][NextReaders]_vars

\* C12: what a reader of the book has obtained (bids, asks and last_updated)
\* is one state of the book, and not a book to which only a part of a stream
\* message has been applied.
C12_ReaderSeesOneState ==
    reader.pc = "done" => reader.oneState /\ ~reader.partial

\* ================================================ the feed's connection loop
InitConn ==
    /\ backend = "mem"
    /\ records = [k \in FullKeys |-> Absent]
    /\ rq = [r \in Reqs |-> IdleReq]
    /\ RiskIdle
    /\ OrderIdle
    /\ FeedIdle

ConnFrame ==
    UNCHANGED <<idemVars, riskVars, orderVars, nonceVars, gwVars, lateVars, feed, api, reader>>

RECURSIVE Pow2(_)
Pow2(k) == IF k = 0 THEN 1 ELSE 2 * Pow2(k - 1)

Min(a, b) == IF a < b THEN a ELSE b

NextDelay_NoCap(d) == d * 2

\* delay *= 2; if delay > ReconnMaxDelay { delay = ReconnMaxDelay }
NextDelay(d) == IF d * 2 > ReconnMaxDelay THEN ReconnMaxDelay ELSE d * 2

\* s.mu is not held by a caller that will never release it
MuFree == mu = "free"

\* the top of runLoop's for: return when the context is cancelled, else dial
LoopTop ==
    /\ run.pc = "top"
    /\ run' = [run EXCEPT !.pc = IF ctxDone THEN "returned" ELSE "dial"]
    /\ UNCHANGED <<ctxDone, conn, open, dials, isConnected, mu, subs, pingers, stop>>
    /\ UNCHANGED books
    /\ ConnFrame

\* connect returns an error: runLoop goes to sleep for delay
DialFail ==
    /\ run.pc = "dial"
    /\ run' = [run EXCEPT !.pc = "sleep", !.fails = Min(@ + 1, MaxFails),
                          !.slept = FALSE]
    /\ UNCHANGED <<ctxDone, conn, open, dials, isConnected, mu, subs, pingers, stop>>
    /\ UNCHANGED books
    /\ ConnFrame

\* time.Sleep(delay) is over: the delay doubles up to the cap, and continue
Backoff ==
    /\ run.pc = "sleep"
    /\ run' = [run EXCEPT !.pc = "top", !.delay = NextDelay(@), !.slept = TRUE]
    /\ UNCHANGED <<ctxDone, conn, open, dials, isConnected, mu, subs, pingers, stop>>
    /\ UNCHANGED books
    /\ ConnFrame

\* connect succeeds: s.conn is the new connection, a pinger is started, and
\* back in runLoop delay = ReconnBaseDelay
DialOk ==
    /\ run.pc = "dial"
    /\ dials < MaxDials
    /\ dials' = dials + 1
    /\ conn' = dials + 1
    /\ open' = open \cup {dials + 1}
    /\ pingers' = pingers \cup {dials + 1}
    /\ run' = [pc |-> "connected", delay |-> ReconnBaseDelay, fails |-> 0,
               slept |-> FALSE]
    /\ UNCHANGED <<ctxDone, isConnected, mu, subs, stop>>
    /\ UNCHANGED books
    /\ ConnFrame

\* s.mu.Lock(); s.isConnected = true; s.mu.Unlock()
MarkConnected ==
    /\ run.pc = "connected"
    /\ MuFree
    /\ isConnected' = TRUE
    /\ run' = [run EXCEPT !.pc = "resubscribe"]
    /\ UNCHANGED <<ctxDone, conn, open, dials, mu, subs, pingers, stop>>
    /\ UNCHANGED books
    /\ ConnFrame

\* the resubscription: nothing to send when subs is empty; else sendSubscribe
\* writes to s.conn, and on an error runLoop closes s.conn and continues
Resubscribe(sent) ==
    /\ run.pc = "resubscribe"
    /\ MuFree
    /\ sent => conn \in open
    /\ subs = {} => sent
    /\ run' = [run EXCEPT !.pc = IF sent THEN "read" ELSE "top"]
    /\ open' = IF sent THEN open ELSE open \ {conn}
    /\ UNCHANGED <<ctxDone, conn, dials, isConnected, mu, subs, pingers, stop>>
    /\ UNCHANGED books
    /\ ConnFrame

\* readLoop: ReadMessage on s.conn returns a message, or an error (always
\* when the connection is closed); on the error readLoop returns, and its
\* deferred s.conn.Close() runs
ReadMessage(ok) ==
    /\ run.pc = "read"
    /\ ok => conn \in open
    /\ run' = [run EXCEPT !.pc = IF ok THEN "process" ELSE "after"]
    /\ open' = IF ok THEN open ELSE open \ {conn}
    /\ UNCHANGED <<ctxDone, conn, dials, isConnected, mu, subs, pingers, stop>>
    /\ UNCHANGED books
    /\ ConnFrame

\* readLoop: the message is dispatched (processBookMessage takes s.mu.RLock)
\* and the loop reads again
ProcessMessage ==
    /\ run.pc = "process"
    /\ MuFree
    /\ run' = [run EXCEPT !.pc = "read"]
    /\ UNCHANGED <<ctxDone, conn, open, dials, isConnected, mu, subs, pingers, stop>>
    /\ UNCHANGED books
    /\ ConnFrame

\* after readLoop: s.mu.Lock(); s.isConnected = false; s.mu.Unlock()
AfterReadLoop ==
    /\ run.pc = "after"
    /\ MuFree
    /\ isConnected' = FALSE
    /\ run' = [run EXCEPT !.pc = "top"]
    /\ UNCHANGED <<ctxDone, conn, open, dials, mu, subs, pingers, stop>>
    /\ UNCHANGED books
    /\ ConnFrame

\* a pinger takes the ctx.Done case of its select and returns
PingerDone(p) ==
    /\ p \in pingers
    /\ ctxDone
    /\ pingers' = pingers \ {p}
    /\ UNCHANGED <<ctxDone, conn, open, dials, isConnected, mu, subs, run, stop>>
    /\ UNCHANGED books
    /\ ConnFrame

\* a pinger takes the ticker case: under s.mu it returns when the feed is not
\* connected, else writes a ping to s.conn and returns when the write fails
PingerTick(p) ==
    /\ p \in pingers
    /\ MuFree
    /\ pingers' = IF isConnected /\ conn # NoConn /\ conn \in open
                  THEN pingers ELSE pingers \ {p}
    /\ UNCHANGED <<ctxDone, conn, open, dials, isConnected, mu, subs, run, stop>>
    /\ UNCHANGED books
    /\ ConnFrame

\* Subscribe of a token not yet in subs, under s.mu.Lock(): the token and an
\* empty book are added, and when the feed is connected it calls
\* sendSubscribe, whose s.mu.Lock() waits for the lock Subscribe itself holds
SubscribeUnderLock(t) ==
    /\ MuFree
    /\ t \notin subs
    /\ subs' = subs \cup {t}
    /\ books' = [books EXCEPT ![t] = NewOrderbook]
    /\ mu' = IF isConnected THEN "Subscribe" ELSE "free"
    /\ UNCHANGED <<ctxDone, conn, open, dials, isConnected, run, pingers, stop>>
    /\ ConnFrame

\* Stop: s.cancel()
StopCancel ==
    /\ stop = "idle"
    /\ ctxDone' = TRUE
    /\ stop' = "cancelled"
    /\ UNCHANGED <<conn, open, dials, isConnected, mu, subs, run, pingers>>
    /\ UNCHANGED books
    /\ ConnFrame

\* Stop: if s.conn != nil { s.conn.Close() }
StopClose ==
    /\ stop = "cancelled"
    /\ open' = open \ {conn}
    /\ stop' = "done"
    /\ UNCHANGED <<ctxDone, conn, dials, isConnected, mu, subs, run, pingers>>
    /\ UNCHANGED books
    /\ ConnFrame

RunLoopStep ==
    \/ LoopTop
    \/ DialFail
    \/ Backoff
    \/ DialOk
    \/ MarkConnected
    \/ \E sent \in BOOLEAN : Resubscribe(sent)
    \/ \E ok \in BOOLEAN : ReadMessage(ok)
    \/ ProcessMessage
    \/ AfterReadLoop

PingerStep ==
    \/ \E p \in 1..MaxDials : PingerDone(p)
    \/ \E p \in 1..MaxDials : PingerTick(p)

NextConn ==
    \/ RunLoopStep
    \/ PingerStep
    \/ \E t \in SubscribedTokens : SubscribeUnderLock(t)
    \/ StopCancel
    \/ StopClose

SpecConn == InitConn /\ [][NextConn]_vars

C32_SleepBeforeRedial ==
    /\ run.pc = "dial" => run.slept
    /\ (conn = NoConn \/ conn \notin open) => ~isConnected

\* C33: Subscribe returns and releases s.mu in every state of the
\* connection, also when it adds a token while the feed is connected: no
\* call of Subscribe is left holding the lock, waiting for a lock it holds
\* itself, so that GetBook, the pinger, the dispatch of readLoop and runLoop
\* can take the lock afterwards.
C33_SubscribeReturns == mu \notin {"Subscribe"}

\* ------------------------------------------------- the feed after Stop
\* Every goroutine that can take a step takes one: runLoop (a dial, a sleep,
\* a read return), each pinger, and the caller of Stop. What the peer sends,
\* and when, is left open.
SpecConnLive ==
    /\ SpecConn
    /\ WF_vars(RunLoopStep)
    /\ \A p \in 1..MaxDials : WF_vars(PingerDone(p) \/ PingerTick(p))
    /\ WF_vars(StopClose)

\* runLoop has returned (readLoop with it), no pinger is alive and no
\* connection dialed by the feed is open
AllTerminated ==
    /\ run.pc = "returned"
    /\ pingers = {}
    /\ open = {}

\* C14: once Stop has been called, the run loop, the read loop and every
\* pinger terminate, and every connection the feed dialed is closed.
C14_StopTerminatesAll == (stop = "done") ~> AllTerminated

\* ========================================================== nonce manager
InitNonce ==
    /\ backend = "mem"
    /\ records = [k \in FullKeys |-> Absent]
    /\ rq = [r \in Reqs |-> IdleReq]
    /\ RiskIdle
    /\ OrderIdle
    /\ FeedIdle

NonceFrame == UNCHANGED <<idemVars, riskVars, orderVars, feedVars, connVars, gwVars, lateVars>>

\* what SyncExchangeNonce stores and returns: val := big.NewInt(0)
SyncedValue(addr) == 0

\* SyncExchangeNonce(addr): under the write lock, cache the value and return it
SyncExchangeNonce(addr) ==
    /\ exchangeNonces' = [exchangeNonces EXCEPT ![addr] = SyncedValue(addr)]
    /\ nonceOut' = [op |-> "Sync", addr |-> addr, ret |-> SyncedValue(addr)]
    /\ UNCHANGED contractNonces
    /\ NonceFrame

\* GetExchangeNonce(addr): the cached value when there is one, else what
\* SyncExchangeNonce returns
GetExchangeNonce(addr) ==
    /\ IF exchangeNonces[addr] # NoNonce
       THEN /\ nonceOut' = [op |-> "Get", addr |-> addr, ret |-> exchangeNonces[addr]]
            /\ UNCHANGED exchangeNonces
       ELSE /\ exchangeNonces' = [exchangeNonces EXCEPT ![addr] = SyncedValue(addr)]
            /\ nonceOut' = [op |-> "Get", addr |-> addr, ret |-> SyncedValue(addr)]
    /\ UNCHANGED contractNonces
    /\ NonceFrame

\* InvalidateExchangeNonce(addr): a cached value is incremented
InvalidateExchangeNonce(addr) ==
    /\ exchangeNonces[addr] # NoNonce
    /\ exchangeNonces[addr] < MaxNonce
    /\ exchangeNonces' = [exchangeNonces EXCEPT ![addr] = @ + 1]
    /\ nonceOut' = [op |-> "Invalidate", addr |-> addr, ret |-> NoNonce]
    /\ UNCHANGED contractNonces
    /\ NonceFrame

\* the maker has its nonce incremented in the exchange contract (a cancel-all
\* transaction is mined)
ContractIncrement(addr) ==
    /\ contractNonces[addr] < MaxNonce
    /\ contractNonces' = [contractNonces EXCEPT ![addr] = @ + 1]
    /\ UNCHANGED <<exchangeNonces, nonceOut>>
    /\ NonceFrame

NextNonce ==
    \/ \E addr \in Makers : SyncExchangeNonce(addr)
    \/ \E addr \in Makers : GetExchangeNonce(addr)
    \/ \E addr \in Makers : InvalidateExchangeNonce(addr)
    \/ \E addr \in Makers : ContractIncrement(addr)

SpecNonce == InitNonce /\ [][NextNonce]_vars

\* C16: Get(maker) returns the cached nonce when there is one and else what
\* Sync(maker) returns; and when Sync(maker) returns, directly or within Get,
\* the cached nonce of maker is nonces(maker) of the exchange contract,
\* whatever the cache held before.
C16_SyncReadsTheContract ==
    [][\A addr \in Makers :
         /\ GetExchangeNonce(addr) /\ exchangeNonces[addr] # NoNonce
               => nonceOut'.ret = exchangeNonces[addr]
         /\ GetExchangeNonce(addr) /\ exchangeNonces[addr] = NoNonce
               => /\ nonceOut'.ret = exchangeNonces'[addr]
                  /\ exchangeNonces'[addr] = contractNonces'[addr]
         /\ SyncExchangeNonce(addr)
               => /\ nonceOut'.ret = exchangeNonces'[addr]
                  /\ exchangeNonces'[addr] = contractNonces'[addr]]_vars

\* ========================================================== gateway calls
\* The gateway as NewGatewayService leaves it, with or without a signing key
\* of its own and with or without an RPC URL (without one there is no nonce
\* manager), serving tenants whose orders may be worth 3 at most.
InitGateway ==
    /\ backend = "mem"
    /\ records = [k \in FullKeys |-> Absent]
    /\ rq = [r \in Reqs |-> IdleReq]
    /\ RiskIdle
    /\ panicMode = FALSE
    /\ panicReq = [pc |-> "idle", err |-> FALSE]
    /\ usageBackend = "mem"
    /\ tenantRisk = [Unlimited EXCEPT !.MaxOrderValue = 3]
    /\ dailyOrders = 0
    /\ dailyVolume = 0
    /\ calls = [c \in Calls |-> IdleCall]
    /\ books = [t \in Tokens |-> NoOrderbook]
    /\ feed = IdleFeed
    /\ api = IdleApi
    /\ reader = IdleReader
    /\ ConnIdle
    /\ NonceIdle
    /\ gwConfig \in [PrivateKey : {"", "kgw"}, rpcURL : BOOLEAN]
    /\ gw = IdleGw
    /\ LateIdle

GwFrame ==
    UNCHANGED <<idemVars, riskVars, feedVars, connVars, lateVars, usageBackend,
                tenantRisk, calls, gwConfig, contractNonces>>

\* the request the risk engine checks: the order is for token T1 at price 0.5
RiskReq(req) == [TokenID |-> "T1", Price |-> 2, Size |-> req.Size, Side |-> "BUY"]

GwRisk(req) == CheckOrder(tenantRisk, RiskReq(req), NoBook, StoredUsage).reason

tenantAllowsSigner(tenant, signer) ==
    \/ tenant.AllowedSigners = {}
    \/ \E allowed \in tenant.AllowedSigners :
          ToLower(TrimSpace(allowed)) = ToLower(TrimSpace(signer))

\* signerAddr of PlaceOrder: req.Signer, or the signer of the order when the
\* request names none
SignerAddr(req) ==
    IF TrimSpace(req.Signer) = "" /\ HasOrder(req.Signable)
    THEN Hex(OrderSigner(req.Signable))
    ELSE TrimSpace(req.Signer)

\* PlaceOrder treats the request as custodial: the gateway signs
UseGatewaySigner(req) == TrimSpace(req.Signature) = ""

\* step 3 of PlaceOrder, "Resolve signer": the error text, "" for none
ResolveSigner(tenant, req) ==
    IF UseGatewaySigner(req)
    THEN IF gwConfig.PrivateKey = ""
         THEN "signature required or gateway private key not configured"
         ELSE ""
    ELSE IF /\ HasOrder(req.Signable)
            /\ req.Signer # ""
            /\ ~EqualFold(Hex(OrderSigner(req.Signable)), req.Signer)
    THEN "signer does not match signable order"
    ELSE IF SignerAddr(req) = ""
    THEN "signer address required when signature is provided"
    ELSE IF ~tenantAllowsSigner(tenant, SignerAddr(req))
    THEN "signer not allowed for tenant"
    ELSE ""

\* PlaceOrder up to the execution: the panic gate, the signable of the
\* request, the risk check, the signer, the L2 credentials and the build of a
\* signable when the request brings none (built: buildSignable succeeds).
\* The error text, "" for none.
PlaceOrderChecks(tenant, req, built) ==
    IF panicMode THEN "system in panic mode: all trading suspended"
    ELSE IF req.Signature # "" /\ req.Signable = "nil"
    THEN "signable order required when providing signature"
    ELSE IF req.Signable = "noorder" THEN "signable order is required"
    ELSE IF GwRisk(req) # "ok" THEN "risk reject"
    ELSE IF ResolveSigner(tenant, req) # "" THEN ResolveSigner(tenant, req)
    ELSE IF ~tenant.HasL2 THEN "missing L2 api credentials"
    ELSE IF req.Signable = "nil" /\ ~built THEN "build signable failed"
    ELSE ""

\* the call returned an error, which OrderHandler maps and ErrorHandler writes
GwFailed(call, text, markers) ==
    [call EXCEPT !.pc = "done", !.ok = FALSE, !.err = text,
                 !.code = mapServiceError(markers),
                 !.status = mapTypeToStatus(mapServiceError(markers))]

GwSucceeded(call) == [call EXCEPT !.pc = "done", !.ok = TRUE, !.status = StatusOK]

GwEntered(op, tenant, req, built) ==
    [IdleGw EXCEPT !.op = op, !.tenant = tenant, !.req = req, !.built = built,
                   !.panicSeen = panicMode, !.orders0 = dailyOrders,
                   !.volume0 = dailyVolume]

\* PlaceOrder, steps 1 to 6
GwPlaceOrder(tenant, req, built) ==
    /\ gw.pc = "idle"
    /\ req.Signable # "nil" => built
    /\ LET text == PlaceOrderChecks(tenant, req, built)
           call == GwEntered("PlaceOrder", tenant, req, built)
       IN  gw' = IF text # "" THEN GwFailed(call, text, MarkersOf(text))
                 ELSE IF UseGatewaySigner(req)
                 THEN [call EXCEPT !.pc = "nonce", !.path = "custodial"]
                 ELSE [call EXCEPT !.pc = "verify", !.path = "external"]
    /\ UNCHANGED <<panicMode, panicReq, dailyOrders, dailyVolume, exchangeNonces,
                   nonceOut>>
    /\ GwFrame

\* the address the gateway's key signs for, and the maker of the order
FastSignerAddress == "0xgw"

\* buildSignable for the gateway's signer: the maker is the derived proxy or
\* Safe wallet when the request asks for that signature type
BuiltMaker(sigType) ==
    CASE sigType = SignatureProxy -> "0xgwproxy"
      [] sigType = SignatureGnosisSafe -> "0xgwsafe"
      [] OTHER -> FastSignerAddress

Maker(req) == IF HasOrder(req.Signable) THEN OrderMaker(req.Signable)
              ELSE BuiltMaker(req.SignatureType)

\* fast path: the exchange nonce of the gateway signer's address, when there
\* is a nonce manager
GwGetNonce ==
    /\ gw.pc = "nonce"
    /\ gw' = [gw EXCEPT !.pc = "sign",
                        !.nonceFor = IF gwConfig.rpcURL THEN FastSignerAddress ELSE "none"]
    /\ IF gwConfig.rpcURL
       THEN /\ nonceOut' = [op |-> "Get", addr |-> FastSignerAddress,
                            ret |-> IF exchangeNonces[FastSignerAddress] # NoNonce
                                    THEN exchangeNonces[FastSignerAddress]
                                    ELSE SyncedValue(FastSignerAddress)]
            /\ exchangeNonces' =
                 IF exchangeNonces[FastSignerAddress] # NoNonce THEN exchangeNonces
                 ELSE [exchangeNonces EXCEPT ![FastSignerAddress] =
                                                 SyncedValue(FastSignerAddress)]
       ELSE UNCHANGED <<exchangeNonces, nonceOut>>
    /\ UNCHANGED <<panicMode, panicReq, dailyOrders, dailyVolume>>
    /\ GwFrame

\* the exchange's error text, lowercased, contains "nonce"
IsNonceError(rejection) == "nonce" \in rejection \/ "Nonce" \in rejection

\* fast path: the order is signed with the gateway's key and posted; on a
\* rejection that reads as a nonce error the maker's nonce is synced
GwSignAndPost(accepted, rejection) ==
    /\ gw.pc = "sign"
    /\ accepted => rejection = {}
    /\ LET call == [gw EXCEPT !.signedWith = gwConfig.PrivateKey, !.submitted = TRUE,
                              !.rejected = ~accepted, !.rejection = rejection]
           sync == ~accepted /\ IsNonceError(rejection) /\ gwConfig.rpcURL
       IN  /\ gw' = IF accepted THEN [call EXCEPT !.pc = "hook"]
                    ELSE GwFailed([call EXCEPT !.resynced =
                                       IF sync THEN Maker(gw.req) ELSE "none"],
                                  "polymarket api error", rejection)
           /\ IF sync
              THEN /\ exchangeNonces' = [exchangeNonces EXCEPT ![Maker(gw.req)] =
                                             SyncedValue(Maker(gw.req))]
                   /\ nonceOut' = [op |-> "Sync", addr |-> Maker(gw.req),
                                   ret |-> SyncedValue(Maker(gw.req))]
              ELSE UNCHANGED <<exchangeNonces, nonceOut>>
    /\ UNCHANGED <<panicMode, panicReq, dailyOrders, dailyVolume>>
    /\ GwFrame

\* fast path: SignOrder fails
GwSignFails ==
    /\ gw.pc = "sign"
    /\ gw' = GwFailed(gw, "signing failed", {})
    /\ UNCHANGED <<panicMode, panicReq, dailyOrders, dailyVolume, exchangeNonces,
                   nonceOut>>
    /\ GwFrame

\* every signature type passes as supported
SignatureTypeSupported_Any(sigType) == sigType = sigType

\* signatureTypeSupported: nil, EOA and Proxy
SignatureTypeSupported(sigType) ==
    sigType \in {NilType, SignatureEOA, SignatureProxy}

\* the signature type of the external path: that of the request, or of the
\* order when the request names none
SigType(req) ==
    IF req.SignatureType = NilType THEN OrderSignatureType(req.Signable)
    ELSE req.SignatureType

\* what EIP1271Verifier.Verify and VerifyOrderSignature may answer
VerifierAnswers == {"true", "false", "error"}

\* external signer path: the client's signature is checked. answer is what
\* the check that is made answers.
GwVerify(answer) ==
    /\ gw.pc = "verify"
    /\ LET sigType == SigType(gw.req)
           strict == ~gw.tenant.AllowUnverifiedSignatures
           pass == [gw EXCEPT !.pc = "post"]
       IN  gw' =
             IF ~SignatureTypeSupported(sigType) /\ strict
             THEN GwFailed(gw, "signature type not supported for verification",
                           MarkersOf("signature type not supported for verification"))
             ELSE IF sigType = SignatureGnosisSafe
             THEN IF ~strict THEN pass
                  ELSE IF ~gwConfig.rpcURL
                  THEN GwFailed(gw, "rpc url not configured", {})
                  ELSE IF answer = "true" THEN [pass EXCEPT !.verifier = answer]
                  ELSE IF answer = "false"
                  THEN GwFailed([gw EXCEPT !.verifier = answer],
                                "invalid safe signature",
                                MarkersOf("invalid safe signature"))
                  ELSE GwFailed([gw EXCEPT !.verifier = answer], "rpc call failed", {})
             ELSE IF SignatureTypeSupported(sigType)
             THEN IF answer = "true" THEN [pass EXCEPT !.ecdsa = "true"]
                  ELSE GwFailed([gw EXCEPT !.ecdsa = "failed"], "invalid signature",
                                MarkersOf("invalid signature"))
             ELSE pass
    /\ UNCHANGED <<panicMode, panicReq, dailyOrders, dailyVolume, exchangeNonces,
                   nonceOut>>
    /\ GwFrame

\* external signer path: the order is posted with the client's signature
GwPostExternal(accepted, rejection) ==
    /\ gw.pc = "post"
    /\ accepted => rejection = {}
    /\ LET call == [gw EXCEPT !.submitted = TRUE, !.rejected = ~accepted,
                              !.rejection = rejection]
       IN  gw' = IF accepted THEN [call EXCEPT !.pc = "hook"]
                 ELSE GwFailed(call, "polymarket api error", rejection)
    /\ UNCHANGED <<panicMode, panicReq, dailyOrders, dailyVolume, exchangeNonces,
                   nonceOut>>
    /\ GwFrame

\* PostOrderHook over RiskUsageStore, and the response
GwPostOrderHook ==
    /\ gw.pc = "hook"
    /\ dailyOrders' = dailyOrders + 1
    /\ dailyVolume' = dailyVolume + OrderValue(RiskReq(gw.req))
    /\ gw' = GwSucceeded(gw)
    /\ UNCHANGED <<panicMode, panicReq, exchangeNonces, nonceOut>>
    /\ GwFrame

\* BuildTypedOrder: the error text, "" for none
BuildTypedOrderChecks(tenant, req, built) ==
    IF req.Signer = "" THEN "signer is required"
    ELSE IF ~tenantAllowsSigner(tenant, req.Signer) THEN "signer not allowed for tenant"
    ELSE IF GwRisk(req) # "ok" THEN "risk reject"
    ELSE IF ~built THEN "build signable failed"
    ELSE ""

\* BuildTypedOrder
GwBuildTypedOrder(tenant, req, built) ==
    /\ gw.pc = "idle"
    /\ LET text == BuildTypedOrderChecks(tenant, req, built)
           call == GwEntered("BuildTypedOrder", tenant, req, built)
       IN  gw' = IF text # "" THEN GwFailed(call, text, MarkersOf(text))
                 ELSE GwSucceeded(call)
    /\ UNCHANGED <<panicMode, panicReq, dailyOrders, dailyVolume, exchangeNonces,
                   nonceOut>>
    /\ GwFrame

\* ActivatePanicMode beside the call: s.panicMode.Store(true)
GwPanic ==
    /\ PanicStore
    /\ UNCHANGED <<exchangeNonces, nonceOut, gw>>

NextGateway ==
    \/ \E tenant \in GwTenants, req \in GwRequests, built \in BOOLEAN :
          GwPlaceOrder(tenant, req, built)
    \/ GwGetNonce
    \/ \E accepted \in BOOLEAN, rejection \in Rejections :
          GwSignAndPost(accepted, rejection)
    \/ GwSignFails
    \/ \E answer \in VerifierAnswers : GwVerify(answer)
    \/ \E accepted \in BOOLEAN, rejection \in Rejections :
          GwPostExternal(accepted, rejection)
    \/ GwPostOrderHook
    \/ \E tenant \in GwTenants, req \in GwRequests, built \in BOOLEAN :
          GwBuildTypedOrder(tenant, req, built)
    \/ GwPanic

SpecGateway == InitGateway /\ [][NextGateway]_vars

\* requests that bring a signable order and a signature, with every signature
\* type: none, EOA, Proxy, Safe and a type the gateway does not know
SignedRequests ==
    [Size : {1}, Signature : {" ", "0xsig"}, Signable : {"order", "safeorder"},
     Signer : {"", "0xAB", "0xCD"},
     SignatureType : {NilType, SignatureEOA, SignatureProxy, SignatureGnosisSafe, 3}]

\* requests without signable and signature, for which the gateway builds and
\* signs the order
BuiltRequests ==
    [Size : {1}, Signature : {""}, Signable : {"nil"}, Signer : {""},
     SignatureType : {NilType, SignatureEOA, SignatureProxy, SignatureGnosisSafe, 3}]

NextTyped ==
    \/ \E tenant \in GwTenants, req \in SignedRequests \cup BuiltRequests,
          built \in BOOLEAN : GwPlaceOrder(tenant, req, built)
    \/ GwGetNonce
    \/ \E accepted \in BOOLEAN, rejection \in Rejections :
          GwSignAndPost(accepted, rejection)
    \/ GwSignFails
    \/ \E answer \in VerifierAnswers : GwVerify(answer)
    \/ \E accepted \in BOOLEAN, rejection \in Rejections :
          GwPostExternal(accepted, rejection)
    \/ GwPostOrderHook
    \/ GwPanic

SpecTyped == InitGateway /\ [][NextTyped]_vars

\* PlaceOrder has returned after the exchange rejected the submission
ExchangeRejected ==
    gw.pc = "done" /\ gw.op = "PlaceOrder" /\ gw.rejected

\* C15: in a gateway with a nonce manager, when the exchange rejects a
\* submission with an error text containing "nonce", PlaceOrder has synced
\* the maker's nonce, returns the exchange's error, and the client gets
\* NONCE_ERROR with status 409; and every rejection that made the gateway
\* sync is reported as NONCE_ERROR.
C15_NonceRejectionResyncs ==
    ExchangeRejected /\ gwConfig.rpcURL =>
        /\ "nonce" \in gw.rejection =>
              /\ gw.resynced = Maker(gw.req)
              /\ gw.err = "polymarket api error"
              /\ gw.code = "NONCE_ERROR"
              /\ gw.status = StatusConflict
        /\ gw.resynced # "none" => gw.code = "NONCE_ERROR"

\* PlaceOrder has returned from the external signer path for a Safe order of
\* a tenant that does not allow unverified signatures
StrictSafeOrderDone ==
    /\ gw.pc = "done"
    /\ gw.op = "PlaceOrder"
    /\ gw.path = "external"
    /\ SigType(gw.req) = SignatureGnosisSafe
    /\ ~gw.tenant.AllowUnverifiedSignatures

\* C17: for a client-signed order with signature type 2 (Safe) of a tenant
\* that disallows unverified signatures, in a gateway with an RPC URL,
\* PlaceOrder has asked the EIP-1271 verifier, and the order was submitted to
\* the exchange exactly when the verifier answered true.
C17_SafeOrderVerified ==
    StrictSafeOrderDone /\ gwConfig.rpcURL =>
        /\ gw.verifier # "none"
        /\ gw.submitted <=> gw.verifier = "true"

\* a PlaceOrder call whose request carries no signature
WithoutSignature == gw.op = "PlaceOrder" /\ gw.req.Signature = ""

\* C18: an order placed without client signature is signed and submitted
\* only if the calling tenant has a private key, and then with that key; the
\* call of a tenant without private key fails with nothing submitted.
C18_SignedWithTenantKey ==
    WithoutSignature =>
        /\ gw.signedWith # "" \/ gw.submitted =>
              /\ gw.tenant.PrivateKey # ""
              /\ gw.signedWith = gw.tenant.PrivateKey
        /\ gw.pc = "done" /\ gw.tenant.PrivateKey = "" => ~gw.ok /\ ~gw.submitted

\* a PlaceOrder call whose request carries a signature field that is not empty
WithSignature == gw.op = "PlaceOrder" /\ gw.req.Signature # ""

\* what the claim requires of such a request: a signable order, req.signer
\* (when set) equal to the order's signer up to letter case, and the order's
\* signer in the tenant's allowed_signers when there are any
SignerChecksPass ==
    /\ HasOrder(gw.req.Signable)
    /\ gw.req.Signer # "" => EqualFold(gw.req.Signer, Hex(OrderSigner(gw.req.Signable)))
    /\ gw.tenant.AllowedSigners # {} =>
          ToLower(Hex(OrderSigner(gw.req.Signable))) \in gw.tenant.AllowedSigners

\* C19: a PlaceOrder with a non-empty signature field is submitted only when
\* the signer checks pass; the gateway's key never signs a signable the
\* client supplied; and a call whose checks do not pass fails with nothing
\* submitted and the usage counters as they were.
C19_ClientSignedOrderChecked ==
    WithSignature =>
        /\ gw.submitted => SignerChecksPass
        /\ gw.req.Signable # "nil" => gw.signedWith = ""
        /\ gw.pc = "done" /\ ~SignerChecksPass =>
              /\ ~gw.ok
              /\ ~gw.submitted
              /\ dailyOrders = gw.orders0
              /\ dailyVolume = gw.volume0

\* this step is a whole BuildTypedOrder call
BuildTypedOrderStep == gw.pc = "idle" /\ gw'.op = "BuildTypedOrder"

\* steps 1 to 4 of PlaceOrder (panic gate, signer validation, risk check,
\* build of the signable) succeed for the tenant and request of the call just
\* made; the L2 credentials, which PlaceOrder resolves in between, are taken
\* as present
PlaceOrderStepsSucceed ==
    PlaceOrderChecks([gw'.tenant EXCEPT !.HasL2 = TRUE], gw'.req, gw'.built) = ""

\* C20: BuildTypedOrder succeeds exactly when steps 1 to 4 of PlaceOrder
\* succeed for the same tenant and request; while panic mode is active it
\* fails with SYSTEM_PANIC; and it submits nothing and leaves the usage
\* counters, the nonce cache and the panic flag as they are.
C20_BuildTypedOrderAsPlaceOrder ==
    [][BuildTypedOrderStep =>
          /\ gw'.ok <=> PlaceOrderStepsSucceed
          /\ panicMode => ~gw'.ok /\ gw'.code = "SYSTEM_PANIC"
          /\ ~gw'.submitted
          /\ UNCHANGED <<dailyOrders, dailyVolume, exchangeNonces, panicMode>>]_vars

\* PlaceOrder has submitted an order with the client's signature for a tenant
\* that does not allow unverified signatures
StrictSubmitted ==
    /\ gw.op = "PlaceOrder" /\ gw.path = "external" /\ gw.submitted
    /\ ~gw.tenant.AllowUnverifiedSignatures

\* C39: for a tenant that does not allow unverified signatures, an order is
\* submitted with the client's signature only after that signature was
\* verified: for signature type 0, 1 or none by the ECDSA check against the
\* order's signer, for type 2 by the EIP-1271 verifier answering true; an
\* order of any other type is not submitted.
C39_StrictTenantOnlyVerified ==
    StrictSubmitted =>
        \/ /\ SigType(gw.req) \in {NilType, SignatureEOA, SignatureProxy}
           /\ gw.ecdsa = "true"
           /\ EqualFold(SignerAddr(gw.req), Hex(OrderSigner(gw.req.Signable)))
        \/ SigType(gw.req) = SignatureGnosisSafe /\ gw.verifier = "true"

\* an order of type Proxy of a strict tenant was verified and accepted
C39_Witness ==
    /\ StrictSubmitted /\ gw.pc = "done" /\ gw.ok
    /\ SigType(gw.req) = SignatureProxy /\ gw.ecdsa = "true"

\* C40: on the custodial path the address whose nonce is resynced after a
\* rejection with a nonce error is the address whose cached nonce was put
\* into the order, whatever the signature type and the maker of the order, so
\* that the cache entry the next order of the signer reads is the one the
\* resync wrote.
C40_ResyncsTheAddressItRead ==
    gw.pc = "done" /\ gw.path = "custodial" /\ gw.resynced # "none" =>
        /\ gw.resynced = gw.nonceFor
        /\ nonceOut = [op |-> "Sync", addr |-> gw.nonceFor,
                       ret |-> exchangeNonces[gw.nonceFor]]

\* the parts of the gateway that the earlier sections model, at rest
CoreIdle ==
    /\ backend = "mem"
    /\ records = [k \in FullKeys |-> Absent]
    /\ rq = [r \in Reqs |-> IdleReq]
    /\ RiskIdle
    /\ OrderIdle
    /\ books = [t \in Tokens |-> NoOrderbook]
    /\ feed = IdleFeed
    /\ api = IdleApi
    /\ reader = IdleReader
    /\ ConnIdle
    /\ NonceIdle
    /\ GwIdle

\* ================================================ errors and their statuses
\* One request that goes through ReadOnlyMiddleware to a handler; what the
\* handler or the middleware records with c.Error, ErrorHandler answers.
InitErr ==
    /\ CoreIdle
    /\ RedactIdle
    /\ AuditIdle
    /\ SignIdle
    /\ UserIdle
    /\ RegIdle
    /\ PipeIdle
    /\ AdminIdle
    /\ er \in {[IdleEr EXCEPT !.enabled = e, !.method = m, !.path = p] :
                 e \in BOOLEAN, m \in Methods, p \in {"/v1/orders", "/v1/panic"}}

ErrFrame ==
    UNCHANGED <<idemVars, riskVars, orderVars, feedVars, connVars, nonceVars, gwVars,
                pipeVars, adminVars, redactVars, auditVars, signVars, userVars, regVars>>

\* ReadOnlyMiddleware: when enabled only DELETE /v1/panic and the reading
\* methods go on; anything else is answered with a READ_ONLY error and aborted.
ReadOnlyMiddleware ==
    /\ er.pc = "readonly"
    /\ er' = IF \/ ~er.enabled
                \/ er.method = "DELETE" /\ er.path = "/v1/panic"
                \/ er.method \in {"GET", "HEAD", "OPTIONS"}
             THEN [er EXCEPT !.pc = "handler"]
             ELSE [er EXCEPT !.pc = "errorhandler", !.cerr = "READ_ONLY"]
    /\ ErrFrame

\* the kinds the handlers raise themselves, without mapServiceError
RaisedKinds == {"INVALID_REQUEST", "NOT_FOUND", "UPSTREAM_ERROR", "AUTH_FAILED",
                "INTERNAL_ERROR"}

\* a handler answers itself with 200
HandlerWrites ==
    /\ er.pc = "handler"
    /\ er' = [er EXCEPT !.pc = "errorhandler", !.status = StatusOK]
    /\ ErrFrame

\* a handler records an error of a kind it chose: c.Error(apperrors.New(kind, ..))
HandlerRaises(kind) ==
    /\ er.pc = "handler"
    /\ er' = [er EXCEPT !.pc = "errorhandler", !.cerr = kind]
    /\ ErrFrame

\* the service returned an error with this text: c.Error(mapServiceError(err))
HandlerMaps(text) ==
    /\ er.pc = "handler"
    /\ er' = [er EXCEPT !.pc = "errorhandler", !.mapped = TRUE, !.text = text,
                        !.cerr = mapServiceError(text)]
    /\ ErrFrame

\* ErrorHandler after c.Next(): c.JSON(appErr.HTTPStatus, appErr), where
\* HTTPStatus was set by apperrors.New from mapTypeToStatus
ErrorHandlerWrites ==
    /\ er.pc = "errorhandler"
    /\ er' = IF er.cerr = "none" THEN [er EXCEPT !.pc = "done"]
             ELSE [er EXCEPT !.pc = "done", !.status = mapTypeToStatus(er.cerr),
                             !.code = er.cerr]
    /\ ErrFrame

NextErr ==
    \/ ReadOnlyMiddleware
    \/ HandlerWrites
    \/ \E kind \in RaisedKinds : HandlerRaises(kind)
    \/ \E text \in SUBSET ErrorMarkers : HandlerMaps(text)
    \/ ErrorHandlerWrites

SpecErr == InitErr /\ [][NextErr]_vars

\* the status the error taxonomy gives each kind
TaxonomyStatus(kind) ==
    CASE kind \in {"RISK_REJECT", "INVALID_REQUEST"} -> 400
      [] kind = "AUTH_FAILED" -> 401
      [] kind = "READ_ONLY" -> 403
      [] kind = "NOT_FOUND" -> 404
      [] kind = "NONCE_ERROR" -> 409
      [] kind = "INTERNAL_ERROR" -> 500
      [] kind = "UPSTREAM_ERROR" -> 502
      [] kind = "SYSTEM_PANIC" -> 503

\* the rule of the list whose words the text holds, no earlier rule matching
FirstRuleGives(text, kind) ==
    LET risk == "risk reject" \in text
        auth == "signature" \in text \/ "unauthorized" \in text
        nonce == "nonce" \in text
        panic == "panic" \in text
    IN  CASE kind = "RISK_REJECT" -> risk
          [] kind = "AUTH_FAILED" -> ~risk /\ auth
          [] kind = "NONCE_ERROR" -> ~risk /\ ~auth /\ nonce
          [] kind = "SYSTEM_PANIC" -> ~risk /\ ~auth /\ ~nonce /\ panic
          [] kind = "INTERNAL_ERROR" -> ~risk /\ ~auth /\ ~nonce /\ ~panic
          [] OTHER -> FALSE

ErrorAnswered == er.pc = "done" /\ er.cerr # "none"

\* C21: a service error is classified by the first rule that matches its text
\* (risk reject, then signature or unauthorized, then nonce, then panic, else
\* internal), and every error is answered with the status the taxonomy gives
\* its kind: 400 RISK_REJECT and INVALID_REQUEST, 401 AUTH_FAILED, 403
\* READ_ONLY, 404 NOT_FOUND, 409 NONCE_ERROR, 500 INTERNAL_ERROR, 502
\* UPSTREAM_ERROR, 503 SYSTEM_PANIC.
C21_ErrorsFollowTheTaxonomy ==
    ErrorAnswered =>
        /\ er.code = er.cerr
        /\ er.status = TaxonomyStatus(er.cerr)
        /\ er.mapped => FirstRuleGives(er.text, er.cerr)

\* ================================================== the /v1 middleware chain
\* main.go: ErrorHandler, MetricsMiddleware, AuditMiddleware for every route;
\* AuthMiddleware, RateLimitMiddleware, IdempotencyMiddleware for /v1; then the
\* handler. The clock stands still: no limiter gains a token.
RateConfigs == [QPS : {0, 1}, Burst : 0..MaxBurst]

InitPipe ==
    /\ CoreIdle
    /\ RedactIdle
    /\ AuditIdle
    /\ SignIdle
    /\ UserIdle
    /\ RegIdle
    /\ ErrIdle
    /\ AdminIdle
    /\ pcfg \in [RequireAPIKey : BOOLEAN, Rate : RateConfigs, repo : BOOLEAN,
                 defaultTenant : {NoTenantID, "t1"}]
    /\ tm = StartTm(pcfg.Rate)
    /\ hreq = [r \in Https |-> IdleHttp]

PipeFrame ==
    UNCHANGED <<idemVars, riskVars, orderVars, feedVars, connVars, nonceVars, gwVars,
                errVars, adminVars, redactVars, auditVars, signVars, userVars, regVars, pcfg>>

\* c.JSON(status, body); c.Abort(): the rest of the chain is skipped and the
\* middlewares already entered go on after their c.Next()
AbortWith(q, status, body) ==
    [q EXCEPT !.pc = "auditpost", !.wstatus = status, !.wbody = body]

\* AuditMiddleware before c.Next(): the entry is created, the writer wrapped.
\* Requests enter in the order of their numbers.
AuditBefore(r, key) ==
    /\ hreq[r].pc = "idle"
    /\ \A o \in Https : o < r => hreq[o].pc # "idle"
    /\ hreq' = [hreq EXCEPT ![r].pc = "auth", ![r].key = key]
    /\ UNCHANGED tm
    /\ PipeFrame

\* AuthMiddleware without the test of cfg.Auth.RequireAPIKey
Auth_DefaultForAll(r) ==
    /\ hreq[r].pc = "auth"
    /\ LET q == hreq[r]
       IN  hreq' = [hreq EXCEPT ![r] =
             IF q.key = ""
             THEN IF pcfg.defaultTenant # NoTenantID
                  THEN [q EXCEPT !.pc = "ratelimit", !.tenant = pcfg.defaultTenant]
                  ELSE AbortWith(q, StatusUnauthorized, "missing API key")
             ELSE IF q.key \in GatewayKeys /\ tm.tenants[q.key] # NoTenantID
                  THEN [q EXCEPT !.pc = "ratelimit", !.tenant = tm.tenants[q.key]]
                  ELSE IF ~pcfg.repo
                       THEN AbortWith(q, StatusUnauthorized, "invalid API key")
                       ELSE [q EXCEPT !.pc = "authrepo"]]
    /\ UNCHANGED tm
    /\ PipeFrame

\* AuthMiddleware up to the lookup in memory (GetTenantByApiKey)
Auth(r) ==
    /\ hreq[r].pc = "auth"
    /\ LET q == hreq[r]
       IN  hreq' = [hreq EXCEPT ![r] =
             IF q.key = ""
             THEN IF ~pcfg.RequireAPIKey /\ pcfg.defaultTenant # NoTenantID
                  THEN [q EXCEPT !.pc = "ratelimit", !.tenant = pcfg.defaultTenant]
                  ELSE AbortWith(q, StatusUnauthorized, "missing API key")
             ELSE IF q.key \in GatewayKeys /\ tm.tenants[q.key] # NoTenantID
                  THEN [q EXCEPT !.pc = "ratelimit", !.tenant = tm.tenants[q.key]]
                  ELSE IF ~pcfg.repo
                       THEN AbortWith(q, StatusUnauthorized, "invalid API key")
                       ELSE [q EXCEPT !.pc = "authrepo"]]
    /\ UNCHANGED tm
    /\ PipeFrame

\* TenantManager.RegisterTenant
RegisterTenant(key, t) ==
    [tm EXCEPT !.tenants[key] = t, !.limiters[t] = NewLimiter(pcfg.Rate)]

\* GetTenantByApiKeyWithFallback after the miss: tm.repo.GetByApiKey, then
\* RegisterTenant
AuthRepo(r) ==
    /\ hreq[r].pc = "authrepo"
    /\ LET q == hreq[r]
           t == RepoTenantOf(q.key)
       IN  IF t = NoTenantID
           THEN /\ hreq' = [hreq EXCEPT
                              ![r] = AbortWith(q, StatusUnauthorized, "invalid API key")]
                /\ UNCHANGED tm
           ELSE /\ tm' = RegisterTenant(q.key, t)
                /\ hreq' = [hreq EXCEPT ![r].pc = "ratelimit", ![r].tenant = t]
    /\ PipeFrame

\* RateLimitMiddleware: limiter.Allow() takes a token or fails at once
RateLimit(r) ==
    /\ hreq[r].pc = "ratelimit"
    /\ LET q == [hreq[r] EXCEPT !.reached = @ \cup {"ratelimit"}]
       IN  IF q.tenant = NoTenantID
           THEN /\ hreq' = [hreq EXCEPT ![r] = AbortWith(q, StatusUnauthorized, "unauthorized")]
                /\ UNCHANGED tm
           ELSE LET tokens == tm.limiters[q.tenant]
                IN  IF tokens \in {NoLimiter, InfTokens}
                    THEN /\ hreq' = [hreq EXCEPT ![r] = [q EXCEPT !.pc = "idempotency",
                                                                  !.limited = "passed"]]
                         /\ UNCHANGED tm
                    ELSE IF tokens >= 1
                    THEN /\ hreq' = [hreq EXCEPT ![r] = [q EXCEPT !.pc = "idempotency",
                                                                  !.limited = "passed"]]
                         /\ tm' = [tm EXCEPT !.limiters[q.tenant] = tokens - 1]
                    ELSE /\ hreq' = [hreq EXCEPT ![r] =
                                [AbortWith(q, StatusTooManyRequests, "rate limit exceeded")
                                    EXCEPT !.limited = "rejected"]]
                         /\ UNCHANGED tm
    /\ PipeFrame

\* IdempotencyMiddleware before c.Next()
Idempotency(r) ==
    /\ hreq[r].pc = "idempotency"
    /\ hreq' = [hreq EXCEPT ![r].pc = "handler",
                            ![r].reached = @ \cup {"idempotency"}]
    /\ UNCHANGED tm
    /\ PipeFrame

\* what a handler does: it answers itself, or records an error, or panics
PipeOutcomes == {"ok", "RISK_REJECT", "SYSTEM_PANIC", "INTERNAL_ERROR", "panics"}

PipeHandler(r, outcome) ==
    /\ hreq[r].pc = "handler"
    /\ LET q == [hreq[r] EXCEPT !.reached = @ \cup {"handler"}]
       IN  hreq' = [hreq EXCEPT ![r] =
             CASE outcome = "ok" ->
                    [q EXCEPT !.pc = "auditpost", !.wstatus = StatusOK, !.wbody = "order"]
               [] outcome = "panics" -> [q EXCEPT !.pc = "recovery"]
               [] OTHER -> [q EXCEPT !.pc = "auditpost", !.cerr = outcome]]
    /\ UNCHANGED tm
    /\ PipeFrame

\* c.Writer.Status() of a response nobody has written yet
WriterStatus(q) == IF q.wstatus = 0 THEN StatusOK ELSE q.wstatus

\* AuditMiddleware after c.Next(): StatusCode and ResponseBody are read from the
\* writer as they are now, and the entry is handed to AuditService.Log
AuditAfter(r) ==
    /\ hreq[r].pc = "auditpost"
    /\ hreq' = [hreq EXCEPT ![r].pc = "errorhandler",
                            ![r].audit = [StatusCode |-> WriterStatus(hreq[r]),
                                          ResponseBody |-> hreq[r].wbody]]
    /\ UNCHANGED tm
    /\ PipeFrame

\* ErrorHandler after c.Next(), the middleware installed first
PipeErrorHandler(r) ==
    /\ hreq[r].pc = "errorhandler"
    /\ LET q == hreq[r]
       IN  hreq' = [hreq EXCEPT ![r] =
                      IF q.cerr = "none" THEN [q EXCEPT !.pc = "done"]
                      ELSE [q EXCEPT !.pc = "done",
                                     !.wstatus = mapTypeToStatus(q.cerr),
                                     !.wbody = Envelope(q.cerr)]]
    /\ UNCHANGED tm
    /\ PipeFrame

\* the panic of a handler passes AuditMiddleware and ErrorHandler, which have
\* no deferred code, and gin's Recovery answers 500
Recovery(r) ==
    /\ hreq[r].pc = "recovery"
    /\ hreq' = [hreq EXCEPT ![r].pc = "done",
                            ![r].wstatus = StatusInternalServerError]
    /\ UNCHANGED tm
    /\ PipeFrame

NextPipe ==
    \/ \E r \in Https, key \in GatewayKeyHeaders : AuditBefore(r, key)
    \/ \E r \in Https : Auth(r)
    \/ \E r \in Https : AuthRepo(r)
    \/ \E r \in Https : RateLimit(r)
    \/ \E r \in Https : Idempotency(r)
    \/ \E r \in Https, outcome \in PipeOutcomes : PipeHandler(r, outcome)
    \/ \E r \in Https : AuditAfter(r)
    \/ \E r \in Https : PipeErrorHandler(r)
    \/ \E r \in Https : Recovery(r)

SpecPipe == InitPipe /\ [][NextPipe]_vars

\* the chain from the arrival of a request to the entry of its handler
NextAuth ==
    \/ \E r \in Https, key \in GatewayKeyHeaders : AuditBefore(r, key)
    \/ \E r \in Https : Auth(r)
    \/ \E r \in Https : AuthRepo(r)
    \/ \E r \in Https : RateLimit(r)
    \/ \E r \in Https : Idempotency(r)

SpecAuth == InitPipe /\ [][NextAuth]_vars

\* the requests of tenant t that the limiter let pass
PassedFor(t) == {r \in Https : hreq[r].tenant = t /\ hreq[r].limited = "passed"}

\* C22: with qps > 0 and burst b, at most b of a tenant's requests pass the
\* limiter while no time elapses; a request it rejects is answered 429 and
\* reaches neither the idempotency layer nor the handler; with qps = 0 the
\* limiter rejects nothing.
C22_AtMostBurstPass ==
    /\ pcfg.Rate.QPS > 0 =>
         \A t \in TenantIDs : Cardinality(PassedFor(t)) <= pcfg.Rate.Burst
    /\ \A r \in Https :
         hreq[r].limited = "rejected" =>
            /\ hreq[r].wstatus = StatusTooManyRequests
            /\ hreq[r].reached \cap {"idempotency", "handler"} = {}
    /\ pcfg.Rate.QPS = 0 => \A r \in Https : hreq[r].limited # "rejected"

\* the request is past AuthMiddleware, bound to tenant t
BoundTo(q, t) == q.pc = "ratelimit" /\ q.tenant = t /\ t # NoTenantID

Refused401(q) == q.pc = "auditpost" /\ q.wstatus = StatusUnauthorized

InsideAuth(q) ==
    q.pc \in {"ratelimit", "idempotency", "handler"} \/ q.reached # {}

\* what AuthMiddleware does with a request that carries the header
WithKeyHeader(r) ==
    /\ Auth(r) /\ hreq[r].key # "" =>
         IF hreq[r].key \in GatewayKeys /\ tm.tenants[hreq[r].key] # NoTenantID
         THEN BoundTo(hreq'[r], tm.tenants[hreq[r].key])
         ELSE IF pcfg.repo THEN hreq'[r].pc = "authrepo" ELSE Refused401(hreq'[r])
    /\ AuthRepo(r) =>
         IF RepoTenantOf(hreq[r].key) # NoTenantID
         THEN /\ BoundTo(hreq'[r], RepoTenantOf(hreq[r].key))
              /\ tm'.tenants[hreq[r].key] = RepoTenantOf(hreq[r].key)
              /\ tm'.limiters[RepoTenantOf(hreq[r].key)] # NoLimiter
         ELSE Refused401(hreq'[r])

\* C23 as stated: a request is inside AuthMiddleware only bound to a tenant;
\* with the header it is the tenant registered under the key, from memory or
\* else from the repository (which registers it with a limiter), and 401 for
\* an unknown key; without the header it is the default tenant when
\* require_api_key is false, and 401 otherwise.
C23_BoundToTenant ==
    /\ [](\A r \in Https : InsideAuth(hreq[r]) => hreq[r].tenant # NoTenantID)
    /\ [][\A r \in Https :
            /\ WithKeyHeader(r)
            /\ Auth(r) /\ hreq[r].key = "" =>
                 IF ~pcfg.RequireAPIKey
                 THEN BoundTo(hreq'[r], pcfg.defaultTenant)
                 ELSE Refused401(hreq'[r])]_vars

\* C23, amended: without the header the request is bound to the default tenant
\* when require_api_key is false and the gateway has a default tenant, and is
\* answered 401 otherwise; the rest as stated.
C23_BoundToTenantIfDefaultExists ==
    /\ [](\A r \in Https : InsideAuth(hreq[r]) => hreq[r].tenant # NoTenantID)
    /\ [][\A r \in Https :
            /\ WithKeyHeader(r)
            /\ Auth(r) /\ hreq[r].key = "" =>
                 IF ~pcfg.RequireAPIKey /\ pcfg.defaultTenant # NoTenantID
                 THEN BoundTo(hreq'[r], pcfg.defaultTenant)
                 ELSE Refused401(hreq'[r])]_vars

\* a request bound from the repository and one bound to the default tenant
\* have both reached the handler
C23_Witness ==
    \E r, o \in Https :
        /\ hreq[r].key = "sk2" /\ hreq[r].tenant = "t2" /\ hreq[r].pc = "handler"
        /\ hreq[o].key = "" /\ hreq[o].tenant = "t1" /\ hreq[o].pc = "handler"
        /\ tm.tenants["sk2"] = "t2"

\* C30: the audit record of a request carries the status code and the response
\* body that were sent to the client (the body as AuditMiddleware redacts it),
\* for every response, the error envelopes of ErrorHandler included.
C30_AuditCarriesWhatWasSent ==
    \A r \in Https :
        hreq[r].pc = "done" =>
            /\ hreq[r].audit # NoAudit
            /\ hreq[r].audit.StatusCode = hreq[r].wstatus
            /\ hreq[r].audit.ResponseBody = hreq[r].wbody

\* ============================================ PUT /v1/tenants/:id/creds
\* The route as tenant_creds_test.go builds it: AdminMiddleware on the group,
\* AdminSecretMiddleware and TenantHandler.UpdateCreds on the route.
InitAdmin ==
    /\ CoreIdle
    /\ RedactIdle
    /\ AuditIdle
    /\ SignIdle
    /\ UserIdle
    /\ RegIdle
    /\ ErrIdle
    /\ PipeIdle
    /\ acfg \in [AdminKey : {"", "admin"}, AdminSecretKey : {"", "secret"},
                 repo : BOOLEAN]
    /\ store = StartStore
    /\ adm = IdleAdm

AdminFrame ==
    UNCHANGED <<idemVars, riskVars, orderVars, feedVars, connVars, nonceVars, gwVars,
                errVars, redactVars, auditVars, signVars, userVars, regVars, pcfg, hreq, acfg>>

\* strings.TrimSpace
RECURSIVE TrimLeft(_)
TrimLeft(txt) ==
    IF txt # <<>> /\ Head(txt) = " " THEN TrimLeft(Tail(txt)) ELSE txt

RECURSIVE TrimRight(_)
TrimRight(txt) ==
    IF txt # <<>> /\ txt[Len(txt)] = " "
    THEN TrimRight(SubSeq(txt, 1, Len(txt) - 1)) ELSE txt

TrimSpaceText(txt) == TrimRight(TrimLeft(txt))

maskSecret(value) ==
    LET v == TrimSpaceText(value)
    IN  IF v = <<>> THEN <<>>
        ELSE IF Len(v) <= 8 THEN <<"*", "*", "*", "*">>
        ELSE SubSeq(v, 1, 4) \o <<".", ".", ".">> \o SubSeq(v, Len(v) - 3, Len(v))

\* toTenantPublic: the credentials of the response
TenantCredsPublic(creds) ==
    [Address |-> creds.Address,
     L2ApiKey |-> maskSecret(creds.L2ApiKey),
     L2ApiSecret |-> maskSecret(creds.L2ApiSecret),
     L2ApiPassphrase |-> maskSecret(creds.L2ApiPassphrase),
     PrivateKey |-> maskSecret(creds.PrivateKey)]

\* the gateway key of a tenant (Tenant.ApiKey)
ApiKeyOf(id) == IF id = "t1" THEN "sk1" ELSE "sk2"

AdminAnswer(status) == [adm EXCEPT !.pc = "done", !.resp.status = status]

AdminArrive(hdrKey, hdrSecret, id, bindOk, creds) ==
    /\ adm.pc = "idle"
    /\ adm' = [adm EXCEPT !.pc = "admin", !.hdrKey = hdrKey, !.hdrSecret = hdrSecret,
                          !.id = id, !.bindOk = bindOk, !.creds = creds]
    /\ UNCHANGED <<store, tm>>
    /\ AdminFrame

AdminMiddleware ==
    /\ adm.pc = "admin"
    /\ adm' = IF acfg.AdminKey = "" THEN AdminAnswer(StatusForbidden)
              ELSE IF adm.hdrKey # acfg.AdminKey THEN AdminAnswer(StatusUnauthorized)
              ELSE [adm EXCEPT !.pc = "adminsecret"]
    /\ UNCHANGED <<store, tm>>
    /\ AdminFrame

\* the route without the test of X-Admin-Secret
AdminSecretMiddleware_Open ==
    /\ adm.pc = "adminsecret"
    /\ adm' = [adm EXCEPT !.pc = "handler"]
    /\ UNCHANGED <<store, tm>>
    /\ AdminFrame

AdminSecretMiddleware ==
    /\ adm.pc = "adminsecret"
    /\ adm' = IF acfg.AdminSecretKey = "" THEN AdminAnswer(StatusForbidden)
              ELSE IF adm.hdrSecret # acfg.AdminSecretKey
                   THEN AdminAnswer(StatusUnauthorized)
              ELSE [adm EXCEPT !.pc = "handler"]
    /\ UNCHANGED <<store, tm>>
    /\ AdminFrame

\* TenantManager.GetTenantByID
InMemory(id) == \E k \in GatewayKeys : tm.tenants[k] = id

\* TenantRepoCRUD.GetByID: the repository holds t2
InRepo(id) == RepoTenantOf(ApiKeyOf(id)) = id

\* TenantHandler.UpdateCreds and TenantService.UpdateCreds up to the call of
\* ReplaceTenant: bind the body, find the tenant, set its credentials, and
\* with a repository store them there (updateOk: whether repo.Update succeeds)
UpdateCreds(updateOk) ==
    /\ adm.pc = "handler"
    /\ IF ~adm.bindOk
       THEN adm' = AdminAnswer(StatusBadRequest) /\ UNCHANGED store
       ELSE IF acfg.repo
       THEN IF ~InRepo(adm.id) \/ ~updateOk
            THEN adm' = AdminAnswer(StatusBadRequest) /\ UNCHANGED store
            ELSE /\ store' = [store EXCEPT !.repo[adm.id] = adm.creds]
                 /\ adm' = [adm EXCEPT !.pc = "remove", !.tenant = adm.id]
       ELSE IF ~InMemory(adm.id)
            THEN adm' = AdminAnswer(StatusBadRequest) /\ UNCHANGED store
            ELSE /\ store' = [store EXCEPT !.mem[adm.id] = adm.creds]
                 /\ adm' = [adm EXCEPT !.pc = "remove", !.tenant = adm.id]
    /\ UNCHANGED tm
    /\ AdminFrame

\* ReplaceTenant, first half: RemoveTenantByID
RemoveTenantByID ==
    /\ adm.pc = "remove"
    /\ tm' = IF InMemory(adm.tenant)
             THEN [tenants |-> [k \in GatewayKeys |->
                                   IF tm.tenants[k] = adm.tenant THEN NoTenantID
                                   ELSE tm.tenants[k]],
                   limiters |-> [tm.limiters EXCEPT ![adm.tenant] = NoLimiter]]
             ELSE tm
    /\ adm' = [adm EXCEPT !.pc = "register"]
    /\ UNCHANGED store
    /\ AdminFrame

\* ReplaceTenant, second half: RegisterTenant; then the handler answers 200
\* with toTenantPublic(tenant)
RegisterAndAnswer ==
    /\ adm.pc = "register"
    /\ tm' = RegisterTenant(ApiKeyOf(adm.tenant), adm.tenant)
    /\ store' = [store EXCEPT !.mem[adm.tenant] = adm.creds]
    /\ adm' = [adm EXCEPT !.pc = "done",
                          !.resp = [status |-> StatusOK,
                                    creds |-> TenantCredsPublic(adm.creds)]]
    /\ AdminFrame

NextAdmin ==
    \/ \E hdrKey \in {"", "admin", "bad"}, hdrSecret \in {"", "secret", "bad"},
          id \in {"t1", "t2", "t9"}, bindOk \in BOOLEAN, creds \in CredsPayloads :
            AdminArrive(hdrKey, hdrSecret, id, bindOk, creds)
    \/ AdminMiddleware
    \/ AdminSecretMiddleware
    \/ \E updateOk \in BOOLEAN : UpdateCreds(updateOk)
    \/ RemoveTenantByID
    \/ RegisterAndAnswer

SpecAdmin == InitAdmin /\ [][NextAdmin]_vars

\* the credentials stored for the tenant of the request, where the service
\* keeps them
StoredCreds(id) == IF acfg.repo THEN store.repo[id] ELSE store.mem[id]

SecretFields == {"L2ApiKey", "L2ApiSecret", "L2ApiPassphrase", "PrivateKey"}

\* the response shows no secret as it is stored
OnlyMasked(resp, creds) ==
    \A f \in SecretFields :
        /\ resp[f] = maskSecret(creds[f])
        /\ TrimSpaceText(creds[f]) # <<>> => resp[f] # creds[f]

BothAdminHeaders ==
    /\ acfg.AdminKey # "" /\ adm.hdrKey = acfg.AdminKey
    /\ acfg.AdminSecretKey # "" /\ adm.hdrSecret = acfg.AdminSecretKey

\* C24: an update of a tenant's credentials takes effect only with the
\* configured X-Admin-Key and X-Admin-Secret: with a missing or wrong secret
\* the answer is 401 and the stored credentials are unchanged; with both the
\* stored credentials are replaced and the response shows every secret only
\* in masked form.
C24_CredsNeedAdminSecret ==
    /\ [](adm.pc = "done" =>
            /\ acfg.AdminKey # "" /\ acfg.AdminSecretKey # ""
                 /\ adm.hdrSecret # acfg.AdminSecretKey =>
                    adm.resp.status = StatusUnauthorized /\ store = StartStore
            /\ adm.resp.status = StatusOK =>
                 /\ BothAdminHeaders
                 /\ StoredCreds(adm.id) = adm.creds
                 /\ store.mem[adm.id] = adm.creds
                 /\ OnlyMasked(adm.resp.creds, adm.creds))
    /\ [][store' # store \/ tm' # tm => BothAdminHeaders]_vars

\* the credentials of t1 were replaced by a request with both headers
C24_Witness ==
    /\ adm.pc = "done" /\ adm.resp.status = StatusOK /\ adm.id = "t1"
    /\ store.mem["t1"] = adm.creds /\ store.mem["t1"] # OldCreds
    /\ adm.resp.creds.L2ApiSecret = <<"T", "E", "N", "A", ".", ".", ".", "C", "R", "E", "T">>

\* ===================================================== redaction of bodies
\* the keys of the bodies, in the byte order in which json.Marshal writes the
\* keys of a map
KeyOrder == <<" Signature ", "api_key", "l2", "signature", "token_id">>

BodyKeys == {KeyOrder[i] : i \in DOMAIN KeyOrder}

\* strings.ToLower(strings.TrimSpace(key)) for these keys
NormalKey(key) == IF key = " Signature " THEN "signature" ELSE key

isSensitiveKey(key) ==
    NormalKey(key) \in {"api_key", "api_secret", "api_passphrase", "l2_api_key",
                        "l2_api_secret", "l2_api_passphrase", "private_key",
                        "signature", "signer", "sig", "signature_type", "admin_key",
                        "admin_secret_key"}

\* a path is its first part and the rest; strings.HasPrefix looks at the first
isSensitivePath(path) == path[1] \in {"/v1/tenants", "/v1/orders", "/v1/account"}

Paths ==
    {<<"/v1/orders", "">>, <<"/v1/orders", "/typed">>, <<"/v1/tenants", "/t1/creds">>,
     <<"/v1/account", "/proxy">>, <<"/health", "">>, <<"/v1/panic", "">>}

Leaves == {Str("0xdead"), Num("1.0"), Num("9007199254740993")}

Members == BodyKeys \X Leaves

FlatObjects ==
    {Obj(<<a>>, sp) : a \in Members, sp \in BOOLEAN}
      \cup {Obj(<<a, b>>, sp) : a \in Members, b \in Members, sp \in BOOLEAN}

\* objects and arrays around an object with one member
NestedBodies ==
    LET inner == {Obj(<<a>>, FALSE) : a \in Members}
    IN  {Obj(<<<<"l2", o>>>>, FALSE) : o \in inner}
          \cup {Arr(<<o>>) : o \in inner}
          \cup {Obj(<<<<"token_id", Arr(<<Str("x"), o>>)>>>>, FALSE) : o \in inner}

Bodies == FlatObjects \cup NestedBodies \cup Leaves \cup {Raw(""), Raw("not-json")}

\* a float64 as json.Marshal writes it
FormatFloat(lit) ==
    CASE lit = "1.0" -> "1"
      [] lit = "9007199254740993" -> "9007199254740992"
      [] OTHER -> lit

\* json.Unmarshal into interface{}: an object becomes a map (of a key written
\* twice the last value stays), a number a float64
RECURSIVE Unmarshal(_)
RECURSIVE MapOf(_)
MapOf(members) ==
    IF members = <<>> THEN <<>>
    ELSE LET n == Len(members)
             rest == MapOf(SubSeq(members, 1, n - 1))
             key == members[n][1]
         IN  [k \in DOMAIN rest \cup {key} |->
                IF k = key THEN Unmarshal(members[n][2]) ELSE rest[k]]

Unmarshal(text) ==
    CASE text.t = "str" -> [k |-> "string", v |-> text.v]
      [] text.t = "num" -> [k |-> "float64", v |-> FormatFloat(text.v)]
      [] text.t = "arr" -> [k |-> "slice", v |-> [i \in DOMAIN text.m |-> Unmarshal(text.m[i])]]
      [] text.t = "obj" -> [k |-> "map", v |-> MapOf(text.m)]

RECURSIVE redactValue(_)
redactValue(val) ==
    CASE val.k = "map" ->
           [val EXCEPT !.v = [key \in DOMAIN val.v |->
               IF isSensitiveKey(key) THEN [k |-> "string", v |-> "***"]
               ELSE redactValue(val.v[key])]]
      [] val.k = "slice" ->
           [val EXCEPT !.v = [i \in DOMAIN val.v |-> redactValue(val.v[i])]]
      [] OTHER -> val

\* the keys of a map in the order of KeyOrder
RECURSIVE SortedKeys(_, _)
SortedKeys(keys, i) ==
    IF i > Len(KeyOrder) THEN <<>>
    ELSE (IF KeyOrder[i] \in keys THEN <<KeyOrder[i]>> ELSE <<>>)
            \o SortedKeys(keys, i + 1)

\* json.Marshal: no blanks, the keys of a map sorted
RECURSIVE Marshal(_)
Marshal(val) ==
    CASE val.k = "string" -> Str(val.v)
      [] val.k = "float64" -> Num(val.v)
      [] val.k = "slice" -> Arr([i \in DOMAIN val.v |-> Marshal(val.v[i])])
      [] val.k = "map" ->
           LET keys == SortedKeys(DOMAIN val.v, 1)
           IN  Obj([i \in DOMAIN keys |-> <<keys[i], Marshal(val.v[keys[i]])>>], FALSE)

redactAuditBody(path, body) ==
    IF body = Raw("") THEN Raw("")
    ELSE IF ~isSensitivePath(path) THEN body
    ELSE IF body.t = "raw" THEN Raw("[redacted]")
    ELSE Marshal(redactValue(Unmarshal(body)))

InitRedact ==
    /\ CoreIdle
    /\ ErrIdle
    /\ PipeIdle
    /\ AdminIdle
    /\ AuditIdle
    /\ SignIdle
    /\ UserIdle
    /\ RegIdle
    /\ red \in {[IdleRed EXCEPT !.path = p, !.body = b] : p \in Paths, b \in Bodies}

RedactFrame ==
    UNCHANGED <<idemVars, riskVars, orderVars, feedVars, connVars, nonceVars, gwVars,
                errVars, pipeVars, adminVars, auditVars, signVars, userVars, regVars>>

\* AuditMiddleware redacts the body it logs
Redact ==
    /\ red.pc = "idle"
    /\ red' = [red EXCEPT !.pc = "once", !.out = redactAuditBody(red.path, red.body)]
    /\ RedactFrame

\* the redacted text is redacted again
RedactAgain ==
    /\ red.pc = "once"
    /\ red' = [red EXCEPT !.pc = "twice", !.again = redactAuditBody(red.path, red.out)]
    /\ RedactFrame

NextRedact == Redact \/ RedactAgain

SpecRedact == InitRedact /\ [][NextRedact]_vars

\* the values a text holds under sensitive keys, at any depth
RECURSIVE UnderSensitiveKeys(_)
UnderSensitiveKeys(text) ==
    CASE text.t = "obj" ->
           UNION {IF isSensitiveKey(text.m[i][1]) THEN {text.m[i][2]}
                  ELSE UnderSensitiveKeys(text.m[i][2]) : i \in DOMAIN text.m}
      [] text.t = "arr" -> UNION {UnderSensitiveKeys(text.m[i]) : i \in DOMAIN text.m}
      [] OTHER -> {}

\* C25: on a path with prefix /v1/tenants, /v1/orders or /v1/account the
\* redacted text holds "***" in place of every value under a sensitive key, at
\* any depth, and a body that is not JSON becomes "[redacted]"; on any other
\* path the body is logged unchanged; a body with only non-sensitive keys is
\* left unchanged; redacting twice gives what redacting once gives.
C25_RedactionLaws ==
    red.pc = "twice" /\ red.body # Raw("") =>
        /\ isSensitivePath(red.path) =>
             /\ red.body.t # "raw" => UnderSensitiveKeys(red.out) \subseteq {Str("***")}
             /\ red.body.t = "raw" => red.out = Raw("[redacted]")
        /\ ~isSensitivePath(red.path) => red.out = red.body
        /\ red.body.t # "raw" /\ UnderSensitiveKeys(red.body) = {} => red.out = red.body
        /\ red.again = red.out

\* ============================================================= audit sink
InitAudit ==
    /\ CoreIdle
    /\ ErrIdle
    /\ PipeIdle
    /\ AdminIdle
    /\ RedactIdle
    /\ SignIdle
    /\ UserIdle
    /\ RegIdle
    /\ abuf = newAuditBuffer
    /\ asvc \in {NewAuditService(hasRepo) : hasRepo \in BOOLEAN}
    /\ alog = [r \in Logs |-> "idle"]
    /\ alist = NoList

AuditFrame ==
    UNCHANGED <<idemVars, riskVars, orderVars, feedVars, connVars, nonceVars, gwVars,
                errVars, pipeVars, adminVars, redactVars, signVars, userVars, regVars>>

\* auditBuffer.Add
Add(b, entry) ==
    IF Len(b.records) < AuditMaxSize
    THEN [b EXCEPT !.records = Append(@, entry), !.added = Append(@, entry)]
    ELSE [b EXCEPT !.records[b.nextIndex + 1] = entry,
                   !.nextIndex = (b.nextIndex + 1) % AuditMaxSize,
                   !.added = Append(@, entry)]

\* AuditService.Log, first half: the record enters the ring
LogAdd(r) ==
    /\ alog[r] = "idle"
    /\ abuf' = Add(abuf, EntryOf(r))
    /\ alog' = [alog EXCEPT ![r] = "added"]
    /\ UNCHANGED <<asvc, alist>>
    /\ AuditFrame

\* AuditService.Log, second half: the select with a default branch; a send
\* on a closed channel panics
LogSend(r) ==
    /\ alog[r] = "added"
    /\ IF asvc.closed
       THEN /\ alog' = [alog EXCEPT ![r] = "panicked"]
            /\ UNCHANGED asvc
       ELSE IF Len(asvc.logChan) < LogChanSize
       THEN /\ asvc' = [asvc EXCEPT !.logChan = Append(@, EntryOf(r)),
                                    !.enqueued = Append(@, EntryOf(r))]
            /\ alog' = [alog EXCEPT ![r] = "sent"]
       ELSE /\ alog' = [alog EXCEPT ![r] = "dropped"]
            /\ UNCHANGED asvc
    /\ UNCHANGED <<abuf, alist>>
    /\ AuditFrame

\* processLogs: for entry := range s.logChan
ProcessReceive ==
    /\ asvc.pc = "recv"
    /\ \/ /\ asvc.logChan # <<>>
          /\ asvc' = [asvc EXCEPT !.logChan = Tail(@), !.entry = Head(asvc.logChan),
                                  !.pc = IF asvc.hasRepo THEN "insert" ELSE "encode"]
       \/ /\ asvc.logChan = <<>>
          /\ asvc.closed
          /\ asvc' = [asvc EXCEPT !.pc = "done"]
    /\ UNCHANGED <<abuf, alog, alist>>
    /\ AuditFrame

\* processLogs: s.repo.Insert, which may fail
ProcessInsert(ok) ==
    /\ asvc.pc = "insert"
    /\ asvc' = [asvc EXCEPT !.repo = IF ok THEN Append(@, asvc.entry) ELSE @,
                            !.pc = "encode"]
    /\ UNCHANGED <<abuf, alog, alist>>
    /\ AuditFrame

\* processLogs: encoder.Encode, which fails on a closed file
ProcessEncode ==
    /\ asvc.pc = "encode"
    /\ asvc' = [asvc EXCEPT !.file = IF asvc.fileOpen THEN Append(@, asvc.entry) ELSE @,
                            !.pc = "recv", !.entry = 0]
    /\ UNCHANGED <<abuf, alog, alist>>
    /\ AuditFrame

\* AuditService.Close, which main calls once on shutdown, before the server
\* stops taking requests
Close ==
    /\ ~asvc.closed
    /\ asvc' = [asvc EXCEPT !.closed = TRUE, !.fileOpen = FALSE]
    /\ UNCHANGED <<abuf, alog, alist>>
    /\ AuditFrame

\* the loop of auditBuffer.List from step i on
RECURSIVE ListLoop(_, _, _, _, _)
ListLoop(b, tenantID, limit, i, results) ==
    LET total == Len(b.records)
    IN  IF i >= total THEN results
        ELSE LET idx == (b.nextIndex + total - 1 - i) % total
                 entry == b.records[idx + 1]
             IN  IF tenantID # "" /\ entry.TenantID # tenantID
                 THEN ListLoop(b, tenantID, limit, i + 1, results)
                 ELSE IF Len(results) + 1 >= limit THEN Append(results, entry)
                 ELSE ListLoop(b, tenantID, limit, i + 1, Append(results, entry))

\* auditBuffer.List taking every limit as it is given
BufferList_LimitAsGiven(b, tenantID, limit) ==
    ListLoop(b, tenantID, limit, 0, <<>>)

\* auditBuffer.List
BufferList(b, tenantID, limit) ==
    LET lim == IF limit <= 0 \/ limit > AuditMaxSize THEN AuditMaxSize ELSE limit
    IN  ListLoop(b, tenantID, lim, 0, <<>>)

Limits == -1..(AuditMaxSize + 1)

\* AuditService.List without a repository (AuditHandler.List gives the id of
\* the tenant of the request and the limit of the query)
List(tenantID, limit) ==
    /\ alist' = [tenantID |-> tenantID, limit |-> limit,
                 results |-> BufferList(abuf, tenantID, limit), called |-> TRUE,
                 at |-> Len(abuf.added)]
    /\ UNCHANGED <<abuf, asvc, alog>>
    /\ AuditFrame

NextAudit ==
    \/ \E r \in Logs : LogAdd(r)
    \/ \E r \in Logs : LogSend(r)
    \/ ProcessReceive
    \/ \E ok \in BOOLEAN : ProcessInsert(ok)
    \/ ProcessEncode
    \/ Close

SpecAudit == InitAudit /\ [][NextAudit]_vars

\* AuditService.Log from its first line to its last, no other call between
Log(r) ==
    /\ alog[r] = "idle"
    /\ abuf' = Add(abuf, EntryOf(r))
    /\ IF Len(asvc.logChan) < LogChanSize
       THEN /\ asvc' = [asvc EXCEPT !.logChan = Append(@, EntryOf(r)),
                                    !.enqueued = Append(@, EntryOf(r))]
            /\ alog' = [alog EXCEPT ![r] = "sent"]
       ELSE /\ alog' = [alog EXCEPT ![r] = "dropped"]
            /\ UNCHANGED asvc
    /\ UNCHANGED alist
    /\ AuditFrame

NextRing ==
    \/ \E r \in Logs : Log(r)
    \/ \E tenantID \in TenantIDs \cup {NoTenantID}, limit \in Limits : List(tenantID, limit)

SpecRing == InitAudit /\ [][NextRing]_vars

IsPrefix(s, t) == Len(s) <= Len(t) /\ s = SubSeq(t, 1, Len(s))

\* C26: Log always returns, without waiting for the consumer: with a full
\* queue the record is dropped from the path to the file and the repository,
\* it is in the ring all the same, and the request goes on; the records that
\* entered the queue reach the file in the order in which they entered it,
\* every one of them once the consumer has nothing left to take.
C26_LogNeverBlocksAndOrderIsKept ==
    /\ [](/\ \A r \in Logs : alog[r] # "panicked"
          /\ \A r \in Logs : alog[r] \in {"added", "sent", "dropped"} =>
                \E i \in DOMAIN abuf.added : abuf.added[i] = EntryOf(r)
          /\ IsPrefix(asvc.file, asvc.enqueued)
          /\ asvc.logChan = <<>> /\ asvc.pc \in {"recv", "done"} =>
                asvc.file = asvc.enqueued)
    /\ [][\A r \in Logs :
            /\ LogSend(r) => alog'[r] \in {"sent", "dropped"}
            /\ LogSend(r) /\ Len(asvc.logChan) >= LogChanSize =>
                 alog'[r] = "dropped" /\ asvc' = asvc]_vars

\* C31: on shutdown every record that entered the queue before Close is in
\* the file when the file is closed, and a Log that comes after Close (of a
\* request that is still being served) does not panic and does not wait.
C31_ShutdownFlushes ==
    /\ ~asvc.fileOpen => asvc.file = asvc.enqueued
    /\ \A r \in Logs : asvc.closed => alog[r] # "panicked"

\* the records of the last AuditMaxSize of the first n calls of Add, the
\* newest first
NewestFirst(b, n) ==
    LET k == IF n < AuditMaxSize THEN n ELSE AuditMaxSize
    IN  [i \in 1..k |-> b.added[n - i + 1]]

FirstOf(s, k) == IF Len(s) <= k THEN s ELSE SubSeq(s, 1, k)

RingHoldsTheNewest ==
    LET newest == NewestFirst(abuf, Len(abuf.added))
    IN  /\ Len(abuf.records) <= AuditMaxSize
        /\ {abuf.records[i] : i \in DOMAIN abuf.records}
             = {newest[i] : i \in DOMAIN newest}
        /\ Len(abuf.records) = Len(newest)

Keccak256(parts) == <<"keccak256", parts>>

\* a type string is the text before the name of the struct, the name with
\* its first member, and the other members
OrderMembers ==
    "address maker,address signer,address taker,uint256 tokenId,uint256 makerAmount,uint256 takerAmount,uint256 expiration,uint256 nonce,uint256 feeRateBps,uint8 side,uint8 signatureType)"

OrderTypeString == <<"clobtypes.", "Order(uint256 salt,", OrderMembers>>

EIP712DomainTypeString ==
    <<"", "EIP712Domain(string name,", "string version,uint256 chainId,address verifyingContract)">>

EIP712DomainTypeHash == Keccak256(EIP712DomainTypeString)

OrderTypeHash == Keccak256(OrderTypeString)

EIP712DomainName == "Polymarket CTF Exchange"

EIP712DomainVersion == "1"

ExchangeContractAddress == "0x4bFb41d5B3570DeFd03C39a9A4D8dE6Bd8B8982E"

\* the domain separator that NewSigner computes
DomainSeparatorOf(chainID) ==
    Keccak256(<<EIP712DomainTypeHash, Keccak256(<<EIP712DomainName>>),
                Keccak256(<<EIP712DomainVersion>>), chainID, ExchangeContractAddress>>)

\* the words that hashOrder writes into data, in the order of their places
OrderWords(order) ==
    <<OrderTypeHash, order.Salt, order.Maker, order.Signer, order.Taker, order.TokenID,
      order.MakerAmount, order.TakerAmount, order.Expiration, order.Nonce,
      order.FeeRateBps, order.Side, order.SignatureType>>

hashOrder(order) == Keccak256(OrderWords(order))

\* the hash that SignOrder signs
FinalHash(domainSeparator, hashStruct) ==
    Keccak256(<<"0x1901", domainSeparator, hashStruct>>)

\* the orders that are signed: the sizes are those of the tests, the maker
\* is the signer or another address
SignOrders(address) ==
    {[NoOrder EXCEPT !.Salt = salt, !.Maker = maker, !.Signer = address,
                     !.TokenID = tokenID, !.MakerAmount = 1000000,
                     !.TakerAmount = 500000, !.Expiration = 1800000000, !.Nonce = nonce,
                     !.Side = side, !.SignatureType = sigType] :
        salt \in {0, 123}, maker \in {address, "0xB1"}, tokenID \in {1, 999},
        nonce \in 0..1, side \in 0..1, sigType \in {SignatureEOA, SignatureProxy}}

InitSign ==
    /\ CoreIdle
    /\ ErrIdle
    /\ PipeIdle
    /\ AdminIdle
    /\ RedactIdle
    /\ AuditIdle
    /\ UserIdle
    /\ RegIdle
    /\ sg = IdleSg

SignFrame ==
    UNCHANGED <<idemVars, riskVars, orderVars, feedVars, connVars, nonceVars, gwVars,
                errVars, pipeVars, adminVars, redactVars, auditVars, userVars, regVars>>

NewSigner(privateKey, chainID) ==
    /\ sg.pc = "new"
    /\ sg' = [sg EXCEPT !.pc = "ready", !.key = privateKey,
                        !.address = PubkeyToAddress(privateKey), !.chainID = chainID,
                        !.domainSeparator = DomainSeparatorOf(chainID)]
    /\ SignFrame

\* the 65 bytes of a signature: 32 of r, 32 of s, and v
SignatureBytes(signature) ==
    [i \in 1..65 |-> IF i <= 32 THEN "r" ELSE IF i <= 64 THEN "s" ELSE signature.v]

\* "0x" and common.Bytes2Hex: two characters for each byte
Bytes2Hex0x(bytes) ==
    <<"0", "x">> \o [i \in 1..(2 * Len(bytes)) |-> bytes[(i + 1) \div 2]]

\* SignOrder; crypto.Sign gives v 0 or 1, which one depends on the key and
\* the hash
SignOrder(order) ==
    /\ sg.pc \in {"ready", "verified"}
    /\ sg.signed < MaxSigned
    /\ \E v \in 0..1 :
         LET hashStruct == hashOrder(order)
             finalHash == FinalHash(sg.domainSeparator, hashStruct)
             raw == [key |-> sg.key, hash |-> finalHash, v |-> v]
             signature == IF raw.v < 27 THEN [raw EXCEPT !.v = @ + 27] ELSE raw
         IN  sg' = [sg EXCEPT !.pc = "signed", !.given = order, !.order = order,
                              !.hashed = OrderWords(order), !.finalHash = finalHash,
                              !.signature = signature,
                              !.hex = Bytes2Hex0x(SignatureBytes(signature)),
                              !.own = "", !.other = "", !.signed = @ + 1]
    /\ SignFrame

\* ---- the exchange's hash and the verifier, which are not in the sources
CanonicalOrderTypeString == <<"", "Order(uint256 salt,", OrderMembers>>

CanonicalStructHash(order) ==
    Keccak256(<<Keccak256(CanonicalOrderTypeString), order.Salt, order.Maker,
                order.Signer, order.Taker, order.TokenID, order.MakerAmount,
                order.TakerAmount, order.Expiration, order.Nonce, order.FeeRateBps,
                order.Side, order.SignatureType>>)

CanonicalDigest(order, chainID) ==
    Keccak256(<<"0x1901",
                Keccak256(<<Keccak256(EIP712DomainTypeString),
                            Keccak256(<<"Polymarket CTF Exchange">>), Keccak256(<<"1">>),
                            chainID, "0x4bFb41d5B3570DeFd03C39a9A4D8dE6Bd8B8982E">>),
                CanonicalStructHash(order)>>)

\* the address that signed the hash, and an address of nobody when the
\* signature was made over another hash
Ecrecover(hash, signature) ==
    IF signature.hash = hash /\ signature.v \in 0..1 THEN PubkeyToAddress(signature.key)
    ELSE "0xEE"

VerifyOrderSignature(order, signature, sigLen, signerAddr, chainID) ==
    IF sigLen # 65 THEN "error"
    ELSE LET normal == IF signature.v >= 27 THEN [signature EXCEPT !.v = @ - 27]
                       ELSE signature
         IN  IF Ecrecover(CanonicalDigest(order, chainID), normal) = signerAddr THEN "nil"
             ELSE "error"

\* the signature is verified against the signer's address and against another
Verify(wrongAddr) ==
    /\ sg.pc = "signed"
    /\ wrongAddr # sg.address
    /\ sg' = [sg EXCEPT !.pc = "verified",
                        !.own = VerifyOrderSignature(sg.order, sg.signature,
                                    (Len(sg.hex) - 2) \div 2, sg.address, PolygonChainID),
                        !.other = VerifyOrderSignature(sg.order, sg.signature,
                                    (Len(sg.hex) - 2) \div 2, wrongAddr, PolygonChainID)]
    /\ SignFrame

NextSign ==
    \/ \E privateKey \in PrivateKeys : NewSigner(privateKey, PolygonChainID)
    \/ \E order \in SignOrders(sg.address) : SignOrder(order)
    \/ \E wrongAddr \in {"0x01", "0xA1", "0xA2"} : Verify(wrongAddr)

SpecSign == InitSign /\ [][NextSign]_vars

C29_DigestIsCanonical ==
    sg.pc \in {"signed", "verified"} =>
        /\ sg.finalHash = CanonicalDigest(sg.given, sg.chainID)
        /\ sg.finalHash = Keccak256(<<"0x1901", sg.domainSeparator, Keccak256(sg.hashed)>>)
        /\ Len(sg.hashed) = 13
        /\ sg.hashed[1] = OrderTypeHash
        /\ OrderTypeString[1] = "" /\ OrderTypeString[2] = "Order(uint256 salt,"
        /\ sg.domainSeparator = DomainSeparatorOf(PolygonChainID)

\* ========================================================= the user stream
InitUser ==
    /\ CoreIdle
    /\ ErrIdle
    /\ PipeIdle
    /\ AdminIdle
    /\ RedactIdle
    /\ AuditIdle
    /\ SignIdle
    /\ RegIdle
    /\ us = NewUserStream

UserFrame ==
    UNCHANGED <<idemVars, riskVars, orderVars, feedVars, connVars, nonceVars, gwVars,
                errVars, pipeVars, adminVars, redactVars, auditVars, signVars, regVars>>

\* Start: go s.connectAndRead()
UserStart ==
    /\ us.pc = "start"
    /\ us' = [us EXCEPT !.pc = "dial"]
    /\ UserFrame

\* connectAndRead: the dial, after which it returns on an error
UserDial(ok) ==
    /\ us.pc = "dial"
    /\ us' = IF ok THEN [us EXCEPT !.pc = "auth", !.conns = @ + 1]
             ELSE [us EXCEPT !.pc = "returned", !.why = "dial"]
    /\ UserFrame

\* connectAndRead: authenticate writes the auth message
UserAuthenticate(ok) ==
    /\ us.pc = "auth"
    /\ us' = IF ok THEN [us EXCEPT !.pc = "subscribe"]
             ELSE [us EXCEPT !.pc = "returned", !.why = "auth"]
    /\ UserFrame

\* connectAndRead: the subscription to the user channel
UserSubscribe(ok) ==
    /\ us.pc = "subscribe"
    /\ us' = IF ok THEN [us EXCEPT !.pc = "read"]
             ELSE [us EXCEPT !.pc = "returned", !.why = "subscribe"]
    /\ UserFrame

\* handleMessage: an event of type fills is logged, s.fills is not written
handleMessage(s, eventType, fill) ==
    IF eventType = "fills"
    THEN [s EXCEPT !.received = Append(@, fill)]
    ELSE s

\* the read loop: a message is handled, and a read error ends connectAndRead
UserRead(ok, eventType, fill) ==
    /\ us.pc = "read"
    /\ ok => Len(us.received) < NumFills
    /\ us' = IF ok THEN handleMessage(us, eventType, fill)
             ELSE [us EXCEPT !.pc = "returned", !.why = "read"]
    /\ UserFrame

\* GetFills: a copy of s.fills
GetFills ==
    /\ us' = [us EXCEPT !.got = us.fills, !.asked = TRUE]
    /\ UserFrame

UserStreamStep ==
    \/ UserStart
    \/ \E ok \in BOOLEAN : UserDial(ok)
    \/ \E ok \in BOOLEAN : UserAuthenticate(ok)
    \/ \E ok \in BOOLEAN : UserSubscribe(ok)
    \/ \E ok \in BOOLEAN, eventType \in {"fills", "book"}, fill \in FillIDs :
          UserRead(ok, eventType, fill)

NextUser ==
    \/ UserStreamStep
    \/ GetFills

SpecUser == InitUser /\ [][NextUser]_vars

\* The goroutine of the stream takes a step whenever it can; what the peer
\* sends and when GetFills is called are left open.
SpecUserLive == SpecUser /\ WF_vars(UserStreamStep)

\* C34: after a read error the stream connects again (dial, auth,
\* subscription) and reads on; the fills received stay in s.fills, so that
\* a GetFills after a fill event returns that fill (the ring of the model is
\* never full: it would hold every fill the model receives).
C34_ReconnectsAndKeepsFills ==
    /\ [](\A i \in DOMAIN us.received :
             \E j \in DOMAIN us.fills : us.fills[j] = us.received[i])
    /\ [](us.pc = "returned" /\ us.why = "read" => <>(us.pc = "read"))

\* ============================== the tenant registry while a tenant is replaced
InitReg ==
    /\ CoreIdle
    /\ ErrIdle
    /\ PipeIdle
    /\ AdminIdle
    /\ RedactIdle
    /\ AuditIdle
    /\ SignIdle
    /\ UserIdle
    /\ reg = NewRegistry
    /\ tobj = [o \in TenantObjects |-> "old"]
    /\ \E on \in BOOLEAN : trepo = [on |-> on, creds |-> "old"]
    /\ upd = IdleUpd
    /\ treq = [r \in RegReqs |-> IdleRegReq]

RegFrame ==
    UNCHANGED <<idemVars, riskVars, orderVars, feedVars, connVars, nonceVars, gwVars,
                errVars, pipeVars, adminVars, redactVars, auditVars, signVars, userVars>>

\* GetTenantByApiKeyWithFallback with the tenant's gateway key, as the
\* authentication calls it: the map, then the repository, whose tenant is
\* registered (RegisterTenant sets the map entry and a new limiter)
GetTenantByApiKeyWithFallback(r, repoOk) ==
    /\ treq[r].pc = "auth"
    /\ IF reg.tenants # NoObject
       THEN /\ treq' = [treq EXCEPT ![r].pc = "ratelimit", ![r].tenant = reg.tenants]
            /\ UNCHANGED <<reg, tobj>>
       ELSE IF ~trepo.on \/ ~repoOk
       THEN /\ treq' = [treq EXCEPT ![r].pc = "done", ![r].status = StatusUnauthorized]
            /\ UNCHANGED <<reg, tobj>>
       ELSE /\ tobj' = [tobj EXCEPT !["fallback"] = trepo.creds]
            /\ reg' = [reg EXCEPT !.tenants = "fallback", !.limiters = TRUE]
            /\ treq' = [treq EXCEPT ![r].pc = "ratelimit", ![r].tenant = "fallback"]
    /\ UNCHANGED <<trepo, upd>>
    /\ RegFrame

\* RateLimitMiddleware: without a limiter the request goes on; with one,
\* Allow decides
RateLimitMiddleware(r, allow) ==
    /\ treq[r].pc = "ratelimit"
    /\ treq' = IF ~reg.limiters
               THEN [treq EXCEPT ![r].pc = "handler", ![r].nolimiter = TRUE]
               ELSE IF allow THEN [treq EXCEPT ![r].pc = "handler"]
               ELSE [treq EXCEPT ![r].pc = "done", ![r].status = StatusTooManyRequests]
    /\ UNCHANGED <<reg, tobj, trepo, upd>>
    /\ RegFrame

\* what a read of the credentials of a tenant object gives; a read during the
\* unsynchronised write of UpdateCreds gives the old ones, the new ones or a
\* mixture
CredsRead(o) == IF tobj[o] = "writing" THEN {"old", "new", "torn"} ELSE {tobj[o]}

\* CancelOrder: GetClientForTenant with the tenant object of the request; the
\* cached client, or one built from the object's credentials and cached
GetClientForTenant(r) ==
    /\ treq[r].pc = "handler"
    /\ IF reg.clients # NoClient
       THEN /\ treq' = [treq EXCEPT ![r].pc = "done", ![r].status = StatusOK,
                                    ![r].client = reg.clients]
            /\ UNCHANGED reg
       ELSE \E c \in CredsRead(treq[r].tenant) :
            /\ reg' = [reg EXCEPT !.clients = c]
            /\ treq' = [treq EXCEPT ![r].pc = "done", ![r].status = StatusOK,
                                    ![r].client = c]
    /\ UNCHANGED <<tobj, trepo, upd>>
    /\ RegFrame

\* TenantService.UpdateCreds: the tenant object, from the repository when
\* there is one, else the one the manager holds
UpdGetTenant(getOk) ==
    /\ upd.pc = "idle"
    /\ IF trepo.on
       THEN IF getOk
            THEN /\ tobj' = [tobj EXCEPT !["loaded"] = trepo.creds]
                 /\ upd' = [pc |-> "set", tenant |-> "loaded"]
            ELSE upd' = [upd EXCEPT !.pc = "failed"] /\ UNCHANGED tobj
       ELSE /\ upd' = IF reg.tenants = NoObject THEN [upd EXCEPT !.pc = "failed"]
                      ELSE [pc |-> "set", tenant |-> reg.tenants]
            /\ UNCHANGED tobj
    /\ UNCHANGED <<reg, trepo, treq>>
    /\ RegFrame

\* tenant.Creds = req.Creds: the write begins
UpdSetCreds ==
    /\ upd.pc = "set"
    /\ tobj' = [tobj EXCEPT ![upd.tenant] = "writing"]
    /\ upd' = [upd EXCEPT !.pc = "store"]
    /\ UNCHANGED <<reg, trepo, treq>>
    /\ RegFrame

\* the write is done; with a repository, repo.Update
UpdStore(updateOk) ==
    /\ upd.pc = "store"
    /\ tobj' = [tobj EXCEPT ![upd.tenant] = "new"]
    /\ IF trepo.on
       THEN IF updateOk
            THEN trepo' = [trepo EXCEPT !.creds = "new"] /\ upd' = [upd EXCEPT !.pc = "remove"]
            ELSE UNCHANGED trepo /\ upd' = [upd EXCEPT !.pc = "failed"]
       ELSE UNCHANGED trepo /\ upd' = [upd EXCEPT !.pc = "remove"]
    /\ UNCHANGED <<reg, treq>>
    /\ RegFrame

\* ReplaceTenant, first call: RemoveTenantByID deletes the three entries of a
\* tenant that the map of tenants holds
ReplaceRemove ==
    /\ upd.pc = "remove"
    /\ reg' = IF reg.tenants # NoObject
              THEN [tenants |-> NoObject, limiters |-> FALSE, clients |-> NoClient]
              ELSE reg
    /\ upd' = [upd EXCEPT !.pc = "register"]
    /\ UNCHANGED <<tobj, trepo, treq>>
    /\ RegFrame

\* ReplaceTenant, second call: RegisterTenant
ReplaceRegister ==
    /\ upd.pc = "register"
    /\ reg' = [reg EXCEPT !.tenants = upd.tenant, !.limiters = TRUE]
    /\ upd' = [upd EXCEPT !.pc = "replaced"]
    /\ UNCHANGED <<tobj, trepo, treq>>
    /\ RegFrame

NextReg ==
    \/ \E r \in RegReqs, repoOk \in BOOLEAN : GetTenantByApiKeyWithFallback(r, repoOk)
    \/ \E r \in RegReqs, allow \in BOOLEAN : RateLimitMiddleware(r, allow)
    \/ \E r \in RegReqs : GetClientForTenant(r)
    \/ \E getOk \in BOOLEAN : UpdGetTenant(getOk)
    \/ UpdSetCreds
    \/ \E updateOk \in BOOLEAN : UpdStore(updateOk)
    \/ ReplaceRemove
    \/ ReplaceRegister

SpecReg == InitReg /\ [][NextReg]_vars

\* C38: once ReplaceTenant has completed, the client cached for the tenant is
\* built from the new credentials, whatever requests that resolved the tenant
\* before the replace do afterwards; and no request with the tenant's
\* unchanged gateway key is refused as unknown or passes without a limiter.
C38_ReplaceIsAtomic ==
    /\ upd.pc = "replaced" /\ reg.clients # NoClient => reg.clients = "new"
    /\ \A r \in RegReqs :
          treq[r].status # StatusUnauthorized /\ ~treq[r].nolimiter

====
